---- MODULE Spec2Model ----
(***************************************************************************)
(* A model of the quota probes of agent-usage-monitor:                     *)
(*   src/antigravity.py  AntigravityProbe (process-backed probe)           *)
(*   src/gemini_cli.py   GeminiProbe (credential/CLI-backed probe)         *)
(*   src/utils.py        try_parse_time                                    *)
(*   src/main.py         main (the orchestrator)                           *)
(*                                                                         *)
(* Python values are modelled as follows.                                  *)
(*   str            a TLA+ string                                          *)
(*   float / int    an integer count of 1/Scale units (0.5 is 5000)        *)
(*   Optional[T]    a sequence of length 0 (None) or 1 (<<v>>)             *)
(*   a JSON value   a record tagged by its Python type in field t          *)
(***************************************************************************)
EXTENDS Integers, Sequences, FiniteSets, TLC

VARIABLES
    sel_pc,      \* best_mapping_choice driver: "call" before, "ret" after the call
    sel_items,   \* the items argument of best_mapping_choice
    sel_out,     \* the outcome of best_mapping_choice
    ex_pc,       \* extraction driver: "call" before, "ret" after the call
    ex_fn,       \* the extraction function that was called
    ex_in,       \* the payload handed to it
    ex_out,      \* its outcome
    ex_calls,    \* repeated-call driver: the calls made so far on ex_in, in order
    today,       \* the date of the system clock (datetime.now() as dateutil reads it)
    provider,    \* main: its provider argument
    pc,          \* main: the position of the process in main and the run methods
    results,     \* main: the results dict
    run_out,     \* per probe that has run: the outcome of its run() (returned or raised)
    ag,          \* the locals of AntigravityProbe.run
    gm,          \* the locals of GeminiProbe.run
    http_log,    \* the HTTP requests the current run has sent, in order
    os_log,      \* the OS port queries the current run has made, in order
    cli_log,     \* the CLI invocations the current run has made, in order
    ag_timeout   \* self.timeout of the AntigravityProbe

selVars == <<sel_pc, sel_items, sel_out>>
exVars == <<ex_pc, ex_fn, ex_in, ex_out, ex_calls, today>>
runVars == <<provider, pc, results, run_out, ag, gm, http_log, os_log, cli_log>>
objVars == <<ag_timeout>>
vars == <<sel_pc, sel_items, sel_out, ex_pc, ex_fn, ex_in, ex_out, ex_calls, today,
          provider, pc, results, run_out, ag, gm, http_log, os_log, cli_log, ag_timeout>>

(***************************************************************************)
(* Values.                                                                 *)
(***************************************************************************)
Scale == 100 * 100

None == <<>>
Some(v) == <<v>>

(***************************************************************************)
(* JSON payloads.  An object is the sequence of its <<key, value>> pairs   *)
(* in payload order (keys distinct); an int is kept apart from a float, as *)
(* Python's json does.                                                     *)
(***************************************************************************)
JNull == [t |-> "null"]
JStr(s) == [t |-> "str", s |-> s]
JNum(n) == [t |-> "num", n |-> n]
JInt(i) == [t |-> "int", i |-> i]
JArr(xs) == [t |-> "arr", xs |-> xs]
JObj(kvs) == [t |-> "obj", kvs |-> kvs]

\* The pair <<k, v>> of a payload object.
KV(k, v) == <<k, v>>

\* Python truthiness, as `x or y` and `if x` apply it.
Truthy(v) ==
    CASE v.t = "null" -> FALSE
      [] v.t = "int" -> v.i # 0
      [] v.t = "num" -> v.n # 0
      [] v.t = "str" -> v.s # ""
      [] v.t = "arr" -> v.xs # <<>>
      [] OTHER -> v.kvs # <<>>

HasKey(o, k) == \E i \in DOMAIN o.kvs : o.kvs[i][1] = k

\* dict.get(k, default) on a dict o.
GetOr(o, k, default) ==
    IF HasKey(o, k)
    THEN o.kvs[CHOOSE i \in DOMAIN o.kvs : o.kvs[i][1] = k][2]
    ELSE default

\* dict.get(k): None when the key is absent.
Get(o, k) == GetOr(o, k, JNull)

(***************************************************************************)
(* Strings: str.lower() and the substring test `sub in s`.                 *)
(***************************************************************************)
LowerCh(c) ==
    CASE c = "A" -> "a" [] c = "B" -> "b" [] c = "C" -> "c" [] c = "D" -> "d"
      [] c = "E" -> "e" [] c = "F" -> "f" [] c = "G" -> "g" [] c = "H" -> "h"
      [] c = "I" -> "i" [] c = "J" -> "j" [] c = "K" -> "k" [] c = "L" -> "l"
      [] c = "M" -> "m" [] c = "N" -> "n" [] c = "O" -> "o" [] c = "P" -> "p"
      [] c = "Q" -> "q" [] c = "R" -> "r" [] c = "S" -> "s" [] c = "T" -> "t"
      [] c = "U" -> "u" [] c = "V" -> "v" [] c = "W" -> "w" [] c = "X" -> "x"
      [] c = "Y" -> "y" [] c = "Z" -> "z" [] OTHER -> c

RECURSIVE Lower(_)
Lower(s) ==
    IF Len(s) = 0 THEN ""
    ELSE LowerCh(SubSeq(s, 1, 1)) \o Lower(SubSeq(s, 2, Len(s)))

Contains(s, sub) ==
    \E i \in 1..(Len(s) - Len(sub) + 1) : SubSeq(s, i, i + Len(sub) - 1) = sub

(***************************************************************************)
(* AntigravityQuotaItem and AntigravityProbe.best_mapping_choice.          *)
(* An item is [label, remaining_fraction, reset_time]; the label is a JSON *)
(* value because parse_quota_items stores whatever the payload held.       *)
(***************************************************************************)
QuotaItem(label, rem, reset) ==
    [label |-> label, remaining_fraction |-> rem, reset_time |-> reset]

\* lower(s) of best_mapping_choice, `(s or "").lower()`, on a str (or None) label.
lower(label) == IF label.t = "str" THEN Lower(label.s) ELSE ""

\* `(s or "").lower()` raises AttributeError on a truthy value that is no str.
LowerRaises(label) == label.t # "str" /\ Truthy(label)

MutRule1(it) == Contains(lower(it.label), "claude")
Rule1(it) ==
    Contains(lower(it.label), "claude") /\ ~Contains(lower(it.label), "thinking")

Rule2(it) ==
    LET ll == lower(it.label) IN Contains(ll, "pro") /\ Contains(ll, "low")

Rule3(it) ==
    LET ll == lower(it.label) IN Contains(ll, "gemini") /\ Contains(ll, "flash")

\* An outcome of a call: a returned value or a raised exception.
Ret(v) == [raised |-> FALSE, value |-> v]
Raise(e) == [raised |-> TRUE, error |-> e]

\* The condition of the rule-th label loop.
RuleHolds(rule, it) ==
    CASE rule = 1 -> Rule1(it) [] rule = 2 -> Rule2(it) [] OTHER -> Rule3(it)

\* `for it in items: if <rule>: return it`; None when the loop falls through.
RECURSIVE LabelLoop(_, _, _)
LabelLoop(rule, its, i) ==
    IF i > Len(its) THEN Ret(None)
    ELSE IF LowerRaises(its[i].label) THEN Raise("AttributeError")
    ELSE IF RuleHolds(rule, its[i]) THEN Ret(Some(its[i]))
    ELSE LabelLoop(rule, its, i + 1)

\* The comparison of the last loop, `it.remaining_fraction < chosen.remaining_fraction`.
MutFractionLess(a, b) == a <= b
FractionLess(a, b) == a < b

RECURSIVE MinLoop(_, _, _)
MinLoop(its, i, chosen) ==
    IF i > Len(its) THEN chosen
    ELSE IF its[i].remaining_fraction = None THEN MinLoop(its, i + 1, chosen)
    ELSE IF chosen = None
            \/ FractionLess(its[i].remaining_fraction[1],
                            chosen[1].remaining_fraction[1])
         THEN MinLoop(its, i + 1, Some(its[i]))
         ELSE MinLoop(its, i + 1, chosen)

best_mapping_choice(its) ==
    LET r1 == LabelLoop(1, its, 1) IN
    IF r1.raised \/ r1.value # None THEN r1
    ELSE LET r2 == LabelLoop(2, its, 1) IN
    IF r2.raised \/ r2.value # None THEN r2
    ELSE LET r3 == LabelLoop(3, its, 1) IN
    IF r3.raised \/ r3.value # None THEN r3
    ELSE Ret(MinLoop(its, 1, None))

(***************************************************************************)
(* Driver of best_mapping_choice: every list of at most MaxItems typed     *)
(* items (label: str, remaining_fraction: Optional[float]).                *)
(***************************************************************************)
MaxItems == 3

SelLabels ==
    { "claude-3-thinking", "claude-3", "Gemini 3 Pro (Low)", "gemini-flash",
      "Gemini 3 Pro (High)" }

SelFractions == { None, Some(Scale \div 10), Some(Scale \div 2), Some((9 * Scale) \div 10) }

SelItems == { QuotaItem(JStr(l), f, None) : l \in SelLabels, f \in SelFractions }

SelInit ==
    /\ sel_pc = "call"
    /\ sel_items \in UNION { [1..n -> SelItems] : n \in 0..MaxItems }
    /\ sel_out = Ret(None)

SelCall ==
    /\ sel_pc = "call"
    /\ sel_out' = best_mapping_choice(sel_items)
    /\ sel_pc' = "ret"
    /\ UNCHANGED sel_items

\* The driver at rest, in the specifications of the other components.
SelIdle == sel_pc = "idle" /\ sel_items = <<>> /\ sel_out = Ret(None)

(***************************************************************************)
(* Claims about best_mapping_choice (checked under SpecSelect).            *)
(***************************************************************************)
SelHas(l, sub) == Contains(Lower(l), sub)

\* The label rule (1, 2 or 3) each label of the driver satisfies first; 4 for none.
SelClass ==
    [ l \in SelLabels |->
        IF SelHas(l, "claude") /\ ~SelHas(l, "thinking") THEN 1
        ELSE IF SelHas(l, "pro") /\ SelHas(l, "low") THEN 2
        ELSE IF SelHas(l, "gemini") /\ SelHas(l, "flash") THEN 3
        ELSE 4 ]

\* The first item of its, in list order, whose label is of class c.
SelFirst(c, its) ==
    its[CHOOSE i \in DOMAIN its :
            /\ SelClass[its[i].label.s] = c
            /\ \A j \in 1..(i - 1) : SelClass[its[j].label.s] # c]

SelAny(c, its) == \E i \in DOMAIN its : SelClass[its[i].label.s] = c

SelExample ==
    << QuotaItem(JStr("claude-3-thinking"), Some((9 * Scale) \div 10), None),
       QuotaItem(JStr("claude-3"), Some(Scale \div 2), None),
       QuotaItem(JStr("gemini-flash"), Some(Scale \div 10), None) >>

\* C1: best_mapping_choice applies its label rules in strict priority order, each
\* over the whole list: the first "claude"-and-not-"thinking" item if there is one,
\* else the first "pro"-and-"low" item, else the first "gemini"-and-"flash" item
\* (labels compared case-insensitively); for the list [claude-3-thinking 0.9,
\* claude-3 0.5, gemini-flash 0.1] the result is claude-3.
C1_PriorityOrder ==
    sel_pc = "ret" =>
        /\ SelAny(1, sel_items) => sel_out = Ret(Some(SelFirst(1, sel_items)))
        /\ (~SelAny(1, sel_items) /\ SelAny(2, sel_items))
              => sel_out = Ret(Some(SelFirst(2, sel_items)))
        /\ (~SelAny(1, sel_items) /\ ~SelAny(2, sel_items) /\ SelAny(3, sel_items))
              => sel_out = Ret(Some(SelFirst(3, sel_items)))
        /\ sel_items = SelExample => sel_out = Ret(Some(SelExample[2]))

\* The example list has been selected from, and a later rule-1 item won over an
\* earlier item of a lower rule.
C1_Witness ==
    /\ sel_pc = "ret"
    /\ sel_items = SelExample
    /\ sel_out.value[1].label = JStr("claude-3")

SelNoLabelRule(its) == \A i \in DOMAIN its : SelClass[its[i].label.s] = 4

SelKnown(its) == { i \in DOMAIN its : its[i].remaining_fraction # None }

\* The index of the earliest item holding the smallest known fraction.
SelMinIndex(its) ==
    CHOOSE i \in SelKnown(its) :
        /\ \A j \in SelKnown(its) :
              its[i].remaining_fraction[1] <= its[j].remaining_fraction[1]
        /\ \A j \in SelKnown(its) :
              its[j].remaining_fraction[1] = its[i].remaining_fraction[1] => i <= j

\* C2: when no label rule matches any item, best_mapping_choice returns the item
\* with the smallest known remaining_fraction, the earliest among equal minima,
\* ignoring unknown fractions; it returns None exactly when no label rule matches
\* and no item has a known fraction; it never raises.
C2_MinimumFraction ==
    sel_pc = "ret" =>
        /\ ~sel_out.raised
        /\ SelNoLabelRule(sel_items) /\ SelKnown(sel_items) # {}
              => sel_out.value = Some(sel_items[SelMinIndex(sel_items)])
        /\ sel_out.value = None
              <=> (SelNoLabelRule(sel_items) /\ SelKnown(sel_items) = {})

\* Rule 4 decided a list with an unknown fraction first and two equal minima: the
\* earlier of the two was returned.
C2_Witness ==
    /\ sel_pc = "ret"
    /\ Len(sel_items) = 3
    /\ SelNoLabelRule(sel_items)
    /\ sel_items[1].remaining_fraction = None
    /\ sel_items[2].remaining_fraction = Some(Scale \div 10)
    /\ sel_items[3].remaining_fraction = Some(Scale \div 10)
    /\ sel_items[2] # sel_items[3]
    /\ sel_out.value = Some(sel_items[2])

(***************************************************************************)
(* float(x).  A float is a count of 1/Scale units; the strings of the      *)
(* model are [space] [sign] digits [. digits] [space], which float()       *)
(* parses, and strings it rejects with ValueError.                         *)
(***************************************************************************)
IsDigit(c) == c \in {"0", "1", "2", "3", "4", "5", "6", "7", "8", "9"}

DigitVal(c) ==
    CASE c = "0" -> 0 [] c = "1" -> 1 [] c = "2" -> 2 [] c = "3" -> 3
      [] c = "4" -> 4 [] c = "5" -> 5 [] c = "6" -> 6 [] c = "7" -> 7
      [] c = "8" -> 8 [] OTHER -> 9

IsSpace(c) == c \in {" ", "\t", "\n", "\r"}

RECURSIVE LStrip(_)
LStrip(s) ==
    IF Len(s) > 0 /\ IsSpace(SubSeq(s, 1, 1)) THEN LStrip(SubSeq(s, 2, Len(s))) ELSE s

RECURSIVE RStrip(_)
RStrip(s) ==
    IF Len(s) > 0 /\ IsSpace(SubSeq(s, Len(s), Len(s)))
    THEN RStrip(SubSeq(s, 1, Len(s) - 1)) ELSE s

\* str.strip()
Strip(s) == RStrip(LStrip(s))

AllDigits(s) == \A i \in 1..Len(s) : IsDigit(SubSeq(s, i, i))

RECURSIVE DigitsVal(_)
DigitsVal(s) ==
    IF Len(s) = 0 THEN 0
    ELSE DigitsVal(SubSeq(s, 1, Len(s) - 1)) * 10 + DigitVal(SubSeq(s, Len(s), Len(s)))

RECURSIVE Pow10(_)
Pow10(k) == IF k = 0 THEN 1 ELSE 10 * Pow10(k - 1)

\* The position of the first c in s, 0 when there is none.
IndexOf(s, c) ==
    IF \E i \in 1..Len(s) : SubSeq(s, i, i) = c
    THEN CHOOSE i \in 1..Len(s) :
            SubSeq(s, i, i) = c /\ \A j \in 1..(i - 1) : SubSeq(s, j, j) # c
    ELSE 0

\* The value of the decimal literal with integer digits ip and fraction digits
\* fp; None when it is no literal.
DecimalOf(ip, fp) ==
    IF AllDigits(ip) /\ AllDigits(fp) /\ Len(ip) + Len(fp) > 0
    THEN Some(DigitsVal(ip) * Scale + (DigitsVal(fp) * Scale) \div Pow10(Len(fp)))
    ELSE None

\* s split at its first "." (at position dot, 0 when it has none).
DecimalAt(s, dot) ==
    IF dot = 0 THEN DecimalOf(s, "")
    ELSE DecimalOf(SubSeq(s, 1, dot - 1), SubSeq(s, dot + 1, Len(s)))

UnsignedFloat(s) == DecimalAt(s, IndexOf(s, "."))

HasSign(s) == Len(s) > 0 /\ SubSeq(s, 1, 1) \in {"-", "+"}

WithSign(neg, u) == IF neg /\ u # None THEN Some(0 - u[1]) ELSE u

SignedFloat(s) ==
    WithSign(Len(s) > 0 /\ SubSeq(s, 1, 1) = "-",
             UnsignedFloat(IF HasSign(s) THEN SubSeq(s, 2, Len(s)) ELSE s))

\* float(s) of a str: None stands for ValueError.
StrToFloat(s) == SignedFloat(Strip(s))

FloatOrValueError(f) == IF f = None THEN Raise("ValueError") ELSE Ret(f[1])

\* float(x) of any JSON value: the float, or the exception raised.
ToFloat(v) ==
    CASE v.t = "int" -> Ret(v.i * Scale)
      [] v.t = "num" -> Ret(v.n)
      [] v.t = "str" -> FloatOrValueError(StrToFloat(v.s))
      [] OTHER -> Raise("TypeError")

(***************************************************************************)
(* utils.try_parse_time.  A datetime is its civil fields and its tzinfo:   *)
(* tz is "UTC" for an aware value and "naive" for one without tzinfo.      *)
(***************************************************************************)
Datetime(y, mo, d, h, mi, sec, us, tz) ==
    [year |-> y, month |-> mo, day |-> d, hour |-> h, minute |-> mi,
     second |-> sec, microsecond |-> us, tz |-> tz]

\* int(v) of a float: truncation toward zero.
TruncToInt(n) == IF n >= 0 THEN n \div Scale ELSE 0 - ((0 - n) \div Scale)

\* datetime.fromtimestamp(e, tz=timezone.utc): the civil date of day e \div 86400
\* of the proleptic Gregorian calendar and the time of day e % 86400.  The
\* calendar arithmetic goes by 400-year eras: doe is the day of the era, yoe the
\* year of the era, doy the day of the year that starts in March, mp its month.
UtcDatetime(y, m, d, sod) ==
    IF y >= 1 /\ y <= 9999
    THEN Ret(Datetime(y, m, d, sod \div 3600, (sod % 3600) \div 60, sod % 60, 0, "UTC"))
    ELSE Raise("ValueError")

CivilMonth(y0, m, d, sod) == UtcDatetime(y0 + (IF m <= 2 THEN 1 ELSE 0), m, d, sod)

CivilMp(y0, doy, mp, sod) ==
    CivilMonth(y0, IF mp < 10 THEN mp + 3 ELSE mp - 9, doy - (153 * mp + 2) \div 5 + 1, sod)

CivilDoy(y0, doy, sod) == CivilMp(y0, doy, (5 * doy + 2) \div 153, sod)

CivilYoe(era, doe, yoe, sod) ==
    CivilDoy(yoe + era * 400, doe - (365 * yoe + yoe \div 4 - yoe \div 100), sod)

CivilDoe(era, doe, sod) ==
    CivilYoe(era, doe,
             (doe - doe \div 1460 + doe \div 36524 - doe \div 146096) \div 365, sod)

CivilEra(z, era, sod) == CivilDoe(era, z - era * 146097, sod)

CivilOfDay(z, sod) == CivilEra(z, z \div 146097, sod)

FromTimestamp(e) == CivilOfDay((e \div 86400) + 719468, e % 86400)

\* Whether s[i..j] is all digits.
DigitsAt(s, i, j) == j <= Len(s) /\ AllDigits(SubSeq(s, i, j))

\* s starts with YYYY-MM-DDTHH:MM:SS
IsoPrefix(s) ==
    /\ Len(s) >= 19
    /\ DigitsAt(s, 1, 4) /\ SubSeq(s, 5, 5) = "-"
    /\ DigitsAt(s, 6, 7) /\ SubSeq(s, 8, 8) = "-"
    /\ DigitsAt(s, 9, 10) /\ SubSeq(s, 11, 11) = "T"
    /\ DigitsAt(s, 12, 13) /\ SubSeq(s, 14, 14) = ":"
    /\ DigitsAt(s, 15, 16) /\ SubSeq(s, 17, 17) = ":"
    /\ DigitsAt(s, 18, 19)

\* The length of the run of digits of s that starts at position i.
DigitRun(s, i) ==
    Cardinality({ k \in i..Len(s) : AllDigits(SubSeq(s, i, k)) })

FracOf(ndigits) == IF ndigits > 0 THEN ndigits + 1 ELSE 0

\* The length of the fraction ".ddd" of s at position p, 0 when there is none.
FracLen(s, p) ==
    IF p < Len(s) /\ SubSeq(s, p, p) = "." THEN FracOf(DigitRun(s, p + 1)) ELSE 0

\* The fraction that follows the seconds of an ISO date-time.
IsoFracLen(s) == FracLen(s, 20)

\* The zone designator: what follows the seconds and the fraction.
IsoZone(s) == SubSeq(s, 20 + IsoFracLen(s), Len(s))

\* The microseconds of a fraction of flen characters: its first six digits,
\* right-padded with zeros.
MicroOf(digits) == DigitsVal(digits) * Pow10(6 - Len(digits))

IsoMicroOf(s, flen) ==
    IF flen = 0 THEN 0
    ELSE MicroOf(SubSeq(s, 21, 20 + (IF flen > 7 THEN 6 ELSE flen - 1)))

IsoMicro(s) == IsoMicroOf(s, IsoFracLen(s))

\* dateutil.parser.parse(s) on the strings of the model: an ISO-8601 date-time
\* with "Z" or "+00:00" gives an aware datetime, one without a designator gives a
\* naive datetime, and a string that holds no date raises ParserError.
DateutilOf(s, zone) ==
    IF zone \in {"", "Z", "+00:00"}
    THEN Ret(Datetime(DigitsVal(SubSeq(s, 1, 4)), DigitsVal(SubSeq(s, 6, 7)),
                      DigitsVal(SubSeq(s, 9, 10)), DigitsVal(SubSeq(s, 12, 13)),
                      DigitsVal(SubSeq(s, 15, 16)), DigitsVal(SubSeq(s, 18, 19)),
                      IsoMicro(s),
                      IF zone = "" THEN "naive" ELSE "UTC"))
    ELSE Raise("ParserError")

\* s is HH:MM:SS
IsClockTime(s) ==
    /\ Len(s) = 8
    /\ DigitsAt(s, 1, 2) /\ SubSeq(s, 3, 3) = ":"
    /\ DigitsAt(s, 4, 5) /\ SubSeq(s, 6, 6) = ":"
    /\ DigitsAt(s, 7, 8)

\* The dates the system clock shows: two consecutive days.
ClockDays ==
    << [year |-> 2025, month |-> 1, day |-> 1], [year |-> 2025, month |-> 1, day |-> 2] >>

\* parse(s) with default=None fills the fields s does not give from
\* datetime.now(): a time of day gets the date of the clock.
DateutilTime(s, now) ==
    Ret(Datetime(now.year, now.month, now.day, DigitsVal(SubSeq(s, 1, 2)),
                 DigitsVal(SubSeq(s, 4, 5)), DigitsVal(SubSeq(s, 7, 8)), 0, "naive"))

DateutilParse(s) ==
    IF IsoPrefix(s) THEN DateutilOf(s, IsoZone(s))
    ELSE IF IsClockTime(s) THEN DateutilTime(s, today)
    ELSE Raise("ParserError")

\* The Optional[datetime] of an outcome: None when it raised.
OrNone(r) == IF r.raised THEN None ELSE Some(r.value)

\* `datetime.fromtimestamp(int(v), tz=timezone.utc)`, None on any exception.
EpochTime(e) == OrNone(FromTimestamp(e))

\* The str branch: dateparser.parse(v); when it raises, int(float(v)) as an
\* epoch; None when that raises too.
StrTime(parsed, f) ==
    IF ~parsed.raised THEN Some(parsed.value)
    ELSE IF f = None THEN None
    ELSE EpochTime(TruncToInt(f[1]))

try_parse_time(v) ==
    CASE v.t = "null" -> None
      [] v.t = "int" -> EpochTime(v.i)
      [] v.t = "num" -> EpochTime(TruncToInt(v.n))
      [] v.t = "str" -> StrTime(DateutilParse(v.s), StrToFloat(v.s))
      [] OTHER -> None

(***************************************************************************)
(* datetime.isoformat(): YYYY-MM-DDTHH:MM:SS[.ffffff][+00:00].             *)
(***************************************************************************)
DigitCh(d) ==
    CASE d = 0 -> "0" [] d = 1 -> "1" [] d = 2 -> "2" [] d = 3 -> "3"
      [] d = 4 -> "4" [] d = 5 -> "5" [] d = 6 -> "6" [] d = 7 -> "7"
      [] d = 8 -> "8" [] OTHER -> "9"

\* n in exactly w decimal digits, zero-padded.
RECURSIVE Pad(_, _)
Pad(n, w) == IF w = 0 THEN "" ELSE Pad(n \div 10, w - 1) \o DigitCh(n % 10)

isoformat(dt) ==
    Pad(dt.year, 4) \o "-" \o Pad(dt.month, 2) \o "-" \o Pad(dt.day, 2) \o "T"
        \o Pad(dt.hour, 2) \o ":" \o Pad(dt.minute, 2) \o ":" \o Pad(dt.second, 2)
        \o (IF dt.microsecond # 0 THEN "." \o Pad(dt.microsecond, 6) ELSE "")
        \o (IF dt.tz = "UTC" THEN "+00:00" ELSE "")

\* `dt.isoformat() if dt else None`
IsoOrNone(odt) == IF odt = None THEN None ELSE Some(isoformat(odt[1]))

(***************************************************************************)
(* AntigravityProbe.parse_quota_items.                                     *)
(***************************************************************************)
\* d.get(k, {}) in the chain of .get calls: None stands for the AttributeError
\* of .get on a value that is no dict.
ChainGet(od, k, default) ==
    IF od = None THEN None
    ELSE IF od[1].t # "obj" THEN None
    ELSE Some(GetOr(od[1], k, default))

\* The except branch and the isinstance check: both give [].
ListOrEmpty(ocf) ==
    IF ocf = None THEN <<>> ELSE IF ocf[1].t # "arr" THEN <<>> ELSE ocf[1].xs

ConfigsOf(js) ==
    ListOrEmpty(
        ChainGet(ChainGet(ChainGet(Some(js), "userStatus", JObj(<<>>)),
                          "cascadeModelConfigData", JObj(<<>>)),
                 "clientModelConfigs", JArr(<<>>)))

\* `a or b`
OrElse(a, b) == IF Truthy(a) THEN a ELSE b

\* rem_val: float(rem), None when float() raises.
RemVal(rem) == OrNone(ToFloat(rem))

\* The item of a config with this label and quota; quota.get raises when the
\* quota is no dict.
ItemOf(label, quota) ==
    IF quota.t # "obj" THEN Raise("AttributeError")
    ELSE Ret(QuotaItem(label,
                       RemVal(Get(quota, "remainingFraction")),
                       try_parse_time(Get(quota, "resetTime"))))

\* The body of the loop over configs: the item of one config, or the exception
\* of `c.get` / `quota.get` on a value that is no dict.
ParseConfig(c) ==
    IF c.t # "obj" THEN Raise("AttributeError")
    ELSE ItemOf(OrElse(Get(c, "label"), OrElse(Get(c, "modelLabel"), JStr(""))),
                OrElse(GetOr(c, "quotaInfo", JObj(<<>>)), JObj(<<>>)))

RECURSIVE ParseLoop(_, _, _), ParseStep(_, _, _, _)
ParseLoop(configs, i, acc) ==
    IF i > Len(configs) THEN Ret(acc)
    ELSE ParseStep(configs, i, acc, ParseConfig(configs[i]))
ParseStep(configs, i, acc, r) ==
    IF r.raised THEN r ELSE ParseLoop(configs, i + 1, Append(acc, r.value))

parse_quota_items(js) == ParseLoop(ConfigsOf(js), 1, <<>>)

(***************************************************************************)
(* GeminiProbe._extract_quota_legacy.                                      *)
(***************************************************************************)
RemKeys == {"remainingFraction", "remaining_fraction", "remaining", "remainingPercent"}
ResetKeys == {"resetTime", "reset_time", "resetAt", "resetAtMs", "reset"}

\* find_keys: the values of the matching keys in pre-order, a matched value
\* before the matches inside it.  FindFrom walks the pairs of a dict or the
\* elements of a list from position i on.
RECURSIVE find_keys(_, _), FindFrom(_, _, _)
find_keys(d, keys) == IF d.t \in {"obj", "arr"} THEN FindFrom(d, keys, 1) ELSE <<>>
FindFrom(d, keys, i) ==
    IF d.t = "obj"
    THEN IF i > Len(d.kvs) THEN <<>>
         ELSE (IF d.kvs[i][1] \in keys THEN <<d.kvs[i][2]>> ELSE <<>>)
                \o find_keys(d.kvs[i][2], keys) \o FindFrom(d, keys, i + 1)
    ELSE IF i > Len(d.xs) THEN <<>>
         ELSE find_keys(d.xs[i], keys) \o FindFrom(d, keys, i + 1)

\* s.replace("%", "")
RECURSIVE RemovePercent(_)
RemovePercent(s) ==
    IF Len(s) = 0 THEN ""
    ELSE (IF SubSeq(s, 1, 1) = "%" THEN "" ELSE SubSeq(s, 1, 1))
            \o RemovePercent(SubSeq(s, 2, Len(s)))

\* The body of the try of the candidate loop: float(c), after the "%" of a
\* percentage string is removed.
CandidateFloat(c) ==
    ToFloat(IF c.t = "str" /\ Contains(c.s, "%")
            THEN JStr(Strip(RemovePercent(c.s))) ELSE c)

\* The two range tests: the value rem is set to, None when neither holds.
NormalizeVal(val) ==
    IF 0 <= val /\ val <= Scale THEN Some(val)
    ELSE IF Scale < val /\ val <= 100 * Scale THEN Some(val \div 100)
    ELSE None

\* No range test: every number is taken as it is.
MutNormalize(r) == IF r.raised THEN None ELSE Some(r.value)

Normalize(r) == IF r.raised THEN None ELSE NormalizeVal(r.value)

\* The value a candidate sets rem to; None when the loop goes on to the next one.
CandidateRem(c) == Normalize(CandidateFloat(c))

RECURSIVE RemLoop(_, _), RemStep(_, _, _)
RemLoop(cands, i) ==
    IF i > Len(cands) THEN None ELSE RemStep(cands, i, CandidateRem(cands[i]))
RemStep(cands, i, rem) == IF rem # None THEN rem ELSE RemLoop(cands, i + 1)

RECURSIVE ResetLoop(_, _), ResetStep(_, _, _)
ResetLoop(cands, i) ==
    IF i > Len(cands) THEN None ELSE ResetStep(cands, i, try_parse_time(cands[i]))
ResetStep(cands, i, reset_dt) ==
    IF reset_dt # None THEN reset_dt ELSE ResetLoop(cands, i + 1)

\* The result dict of the legacy and free-text paths; rawkey names the key
\* ("raw" or "raw_text") that holds the payload.
FlatQuota(rem, reset, rawkey, raw) ==
    [remaining_fraction |-> rem, reset_time |-> reset, rawkey |-> rawkey, raw |-> raw]

FlatResult(rem, reset_dt, rawkey, raw) ==
    IF rem = None /\ reset_dt = None THEN Ret(None)
    ELSE Ret(Some(FlatQuota(rem, IsoOrNone(reset_dt), rawkey, raw)))

_extract_quota_legacy(resp) ==
    FlatResult(RemLoop(find_keys(resp, RemKeys), 1),
               ResetLoop(find_keys(resp, ResetKeys), 1), "raw", resp)

(***************************************************************************)
(* GeminiProbe._extract_quota_from_api_resp.                               *)
(***************************************************************************)
\* What `for bucket in buckets` iterates over, for a truthy buckets value: the
\* elements of a list, the keys of a dict, the characters of a str; a number is
\* not iterable.
IterOf(b) ==
    CASE b.t = "arr" -> Ret(b.xs)
      [] b.t = "obj" -> Ret([i \in DOMAIN b.kvs |-> JStr(b.kvs[i][1])])
      [] b.t = "str" -> Ret([i \in 1..Len(b.s) |-> JStr(SubSeq(b.s, i, i))])
      [] OTHER -> Raise("TypeError")

ModelQuota(model_id, fraction, reset) ==
    [model_id |-> model_id, remaining_fraction |-> fraction, reset_time |-> reset]

\* `try_parse_time(reset_time_str) if reset_time_str else None`
BucketReset(reset_time_str) ==
    IF Truthy(reset_time_str) THEN try_parse_time(reset_time_str) ELSE None

\* model_quotas.append(...): f is the outcome of float(fraction).
QuotaOf(model_id, f, reset_dt) ==
    IF f.raised THEN f ELSE Ret(<<ModelQuota(model_id, f.value, IsoOrNone(reset_dt))>>)

\* The body of the loop over buckets: what it appends to model_quotas (nothing
\* when the bucket is skipped), or the exception of bucket.get / float(fraction).
BucketQuota(model_id, fraction, reset_time_str) ==
    IF Truthy(model_id) /\ fraction.t # "null"
    THEN QuotaOf(model_id, ToFloat(fraction), BucketReset(reset_time_str))
    ELSE Ret(<<>>)

ParseBucket(bucket) ==
    IF bucket.t # "obj" THEN Raise("AttributeError")
    ELSE BucketQuota(Get(bucket, "modelId"), Get(bucket, "remainingFraction"),
                     Get(bucket, "resetTime"))

RECURSIVE BucketLoop(_, _, _), BucketStep(_, _, _, _)
BucketLoop(buckets, i, acc) ==
    IF i > Len(buckets) THEN Ret(acc)
    ELSE BucketStep(buckets, i, acc, ParseBucket(buckets[i]))
BucketStep(buckets, i, acc, r) ==
    IF r.raised THEN r ELSE BucketLoop(buckets, i + 1, acc \o r.value)

\* `tier in q["model_id"].lower()`, for a str model id.
InTier(q, tier) == Contains(Lower(q.model_id.s), tier)

RECURSIVE TierFilter(_, _, _)
TierFilter(qs, tier, i) ==
    IF i > Len(qs) THEN <<>>
    ELSE (IF InTier(qs[i], tier) THEN <<qs[i]>> ELSE <<>>) \o TierFilter(qs, tier, i + 1)

\* min(qs, key=remaining_fraction) of a non-empty list: the first minimal element.
RECURSIVE MinFrom(_, _, _)
MinFrom(qs, i, best) ==
    IF i > Len(qs) THEN best
    ELSE IF qs[i].remaining_fraction < best.remaining_fraction
         THEN MinFrom(qs, i + 1, qs[i])
         ELSE MinFrom(qs, i + 1, best)

\* The first element in place of the minimal one.
MutMinQuota(qs) == IF qs = <<>> THEN None ELSE Some(qs[1])

\* `min(qs, ...) if qs else None`
MinQuota(qs) == IF qs = <<>> THEN None ELSE Some(MinFrom(qs, 2, qs[1]))

RECURSIVE ModelIds(_)
ModelIds(qs) ==
    IF qs = <<>> THEN <<>> ELSE <<qs[1].model_id>> \o ModelIds(Tail(qs))

\* The tier summary appended to tiers when the tier's minimum exists.
TierOf(name, qmin, qs) ==
    IF qmin = None THEN <<>>
    ELSE << [tier |-> name, remaining_fraction |-> qmin[1].remaining_fraction,
             reset_time |-> qmin[1].reset_time, models |-> ModelIds(qs)] >>

Tier(name, qs) == TierOf(name, MinQuota(qs), qs)

\* The returned dict.
Summary(overall_min, tiers, model_quotas, resp) ==
    [remaining_fraction |->
         IF overall_min = None THEN None ELSE Some(overall_min[1].remaining_fraction),
     reset_time |-> IF overall_min = None THEN None ELSE overall_min[1].reset_time,
     tiers |-> tiers,
     model_quotas |-> model_quotas,
     rawkey |-> "raw",
     raw |-> resp]

TierResult(model_quotas, resp, pro_quotas, flash_quotas) ==
    Ret(Some(Summary(MinQuota(pro_quotas \o flash_quotas),
                     Tier("Pro", pro_quotas) \o Tier("Flash", flash_quotas),
                     model_quotas, resp)))

\* The grouping of a non-empty model_quotas into tiers and the overall minimum;
\* .lower() raises AttributeError on a model id that is no str.
GroupByTier(model_quotas, resp) ==
    IF \E i \in DOMAIN model_quotas : model_quotas[i].model_id.t # "str"
    THEN Raise("AttributeError")
    ELSE TierResult(model_quotas, resp, TierFilter(model_quotas, "pro", 1),
                    TierFilter(model_quotas, "flash", 1))

\* After the loop over the buckets: mq is its outcome.
AfterBuckets(resp, mq) ==
    IF mq.raised THEN mq
    ELSE IF mq.value = <<>> THEN Ret(None)
    ELSE GroupByTier(mq.value, resp)

IterBuckets(resp, it) ==
    IF it.raised THEN it ELSE AfterBuckets(resp, BucketLoop(it.value, 1, <<>>))

WithBuckets(resp, buckets) ==
    IF ~Truthy(buckets) THEN _extract_quota_legacy(resp)
    ELSE IterBuckets(resp, IterOf(buckets))

_extract_quota_from_api_resp(resp) ==
    IF resp.t # "obj" THEN Raise("AttributeError")
    ELSE WithBuckets(resp, GetOr(resp, "buckets", JArr(<<>>)))

(***************************************************************************)
(* GeminiProbe._extract_quota_from_cli_raw.                                *)
(***************************************************************************)
\* The length of the run of ":" and whitespace of s that starts at position i.
SepRun(s, i) ==
    Cardinality({ k \in i..Len(s) :
                    \A j \in i..k : SubSeq(s, j, j) = ":" \/ IsSpace(SubSeq(s, j, j)) })

\* The group of r"Remaining[:\s]+([0-9]+(?:\.[0-9]+)?)[\s%]*" (IGNORECASE)
\* matched at position i of txt; None when there is no match at i.  NumberAt is
\* the number of n digits at k, AfterSep what follows nsep separators at j.
NumberAt(txt, k, n) ==
    IF n > 0 THEN Some(SubSeq(txt, k, k + n - 1 + FracLen(txt, k + n))) ELSE None

AfterSep(txt, j, nsep) ==
    IF nsep > 0 THEN NumberAt(txt, j + nsep, DigitRun(txt, j + nsep)) ELSE None

RemainingAt(txt, i) ==
    IF i + 8 <= Len(txt) /\ Lower(SubSeq(txt, i, i + 8)) = "remaining"
    THEN AfterSep(txt, i + 9, SepRun(txt, i + 9))
    ELSE None

\* re.search: the match at the leftmost position that has one.
RECURSIVE SearchRemaining(_, _), SearchRemainingStep(_, _, _)
SearchRemaining(txt, i) ==
    IF i > Len(txt) THEN None ELSE SearchRemainingStep(txt, i, RemainingAt(txt, i))
SearchRemainingStep(txt, i, m) == IF m # None THEN m ELSE SearchRemaining(txt, i + 1)

\* The group of r"(\d{4}-\d{2}-\d{2}T\d{2}:\d{2}:\d{2}(?:\.\d+)?Z?)" at the
\* start of s: n characters, and the "Z" that may follow.
TimestampGroup(s, n) ==
    SubSeq(s, 1, n + (IF n < Len(s) /\ SubSeq(s, n + 1, n + 1) = "Z" THEN 1 ELSE 0))

TimestampOf(s) ==
    IF IsoPrefix(s) THEN Some(TimestampGroup(s, 19 + IsoFracLen(s))) ELSE None

TimestampAt(txt, i) == TimestampOf(SubSeq(txt, i, Len(txt)))

RECURSIVE SearchTimestamp(_, _), SearchTimestampStep(_, _, _)
SearchTimestamp(txt, i) ==
    IF i > Len(txt) THEN None ELSE SearchTimestampStep(txt, i, TimestampAt(txt, i))
SearchTimestampStep(txt, i, m) == IF m # None THEN m ELSE SearchTimestamp(txt, i + 1)

\* `val / 100.0 if val > 1 else val`
CliRem(val) == IF val > Scale THEN val \div 100 ELSE val

\* rem of the free-text path: m is the match of the first search; float() of
\* its group cannot raise.
TextRem(m) == IF m = None THEN None ELSE Some(CliRem(StrToFloat(m[1])[1]))

\* reset_dt of the free-text path: m2 is the match of the second search.
TextReset(m2) == IF m2 = None THEN None ELSE try_parse_time(JStr(m2[1]))

\* The free-text path, on the text of a str payload.
ExtractFromText(txt) ==
    FlatResult(TextRem(SearchRemaining(txt, 1)), TextReset(SearchTimestamp(txt, 1)),
               "raw_text", JStr(txt))

\* A dict payload goes the API way; a str payload is its own text.
_extract_quota_from_cli_raw(payload) ==
    IF payload.t = "obj" THEN _extract_quota_from_api_resp(payload)
    ELSE ExtractFromText(payload.s)

(***************************************************************************)
(* Driver of the extraction functions: each is applied once to a payload   *)
(* drawn from ExPayloads.                                                  *)
(***************************************************************************)
MaxConfigs == 2
MaxBuckets == 2

\* All sequences of at most n elements of S.
SeqUpTo(S, n) == UNION { [1..k -> S] : k \in 0..n }

ExIsoAware == "2025-01-02T03:04:05Z"
ExIsoNaive == "2025-01-02T03:04:05"

\* remainingFraction values: 0.5, 50, 250, "0.25", "abc", absent.
ExFractionVals ==
    { JNum(Scale \div 2), JInt(50), JInt(250), JStr("0.25"), JStr("abc"), JNull }

\* resetTime values: absent, with and without a designator, and no time.
ExTimeVals == { JNull, JStr(ExIsoAware), JStr(ExIsoNaive), JStr("soon") }

Config(label, rem, reset) ==
    JObj(<< KV("label", label),
            KV("quotaInfo", JObj(<< KV("remainingFraction", rem),
                                    KV("resetTime", reset) >>)) >>)

\* clientModelConfigs entries: well-formed ones, and a modelLabel that is no
\* str, a quotaInfo that is no dict, an entry that is no dict.
ExConfigs ==
    { Config(JStr("Claude Sonnet"), r, t) : r \in ExFractionVals, t \in ExTimeVals }
        \cup { JObj(<< KV("label", JStr("")), KV("modelLabel", JInt(7)) >>),
               JObj(<< KV("label", JStr("gemini-flash")), KV("quotaInfo", JStr("n/a")) >>),
               JObj(<< KV("label", JStr("gemini-flash")), KV("quotaInfo", JNull) >>),
               JInt(1) }

UserStatus(configs) ==
    JObj(<< KV("userStatus",
               JObj(<< KV("cascadeModelConfigData",
                          JObj(<< KV("clientModelConfigs", configs) >>)) >>)) >>)

ExAgPayloads ==
    { UserStatus(JArr(cs)) : cs \in SeqUpTo(ExConfigs, MaxConfigs) }
        \cup { UserStatus(JStr("none")), JObj(<< KV("userStatus", JNull) >>),
               JObj(<<>>), JArr(<<>>) }

Bucket(model_id, rem, reset) ==
    JObj(<< KV("modelId", model_id), KV("remainingFraction", rem),
            KV("resetTime", reset) >>)

ExBuckets ==
    { Bucket(JStr(m), r, t) :
        m \in {"gemini-2.5-pro", "Gemini-2.5-Flash", "gemini-nano"},
        r \in { JNum(Scale \div 5), JNum((4 * Scale) \div 5), JInt(50), JStr("abc"), JNull },
        t \in { JNull, JStr(ExIsoNaive), JStr("soon") } }
        \cup { Bucket(JInt(3), JNum(Scale \div 2), JNull), JInt(1) }

ExBucketPayloads ==
    { JObj(<< KV("buckets", JArr(bs)) >>) : bs \in SeqUpTo(ExBuckets, MaxBuckets) }
        \cup { JObj(<< KV("buckets", JStr("none")) >>),
               JObj(<< KV("buckets", JInt(3)) >>),
               JObj(<< KV("buckets", JObj(<< KV("a", JInt(1)) >>)) >>) }

\* Payloads without buckets, for the generic path: a candidate at the top, one
\* nested below a matched key, and one inside a list.
ExLegacyVals ==
    { JNum(Scale \div 4), JInt(75), JInt(250), JNum(0 - Scale \div 2), JStr("40%"),
      JStr(ExIsoAware), JStr("soon"), JInt(86400) }

ExLegacyPayloads ==
    { JObj(<< KV(k1, JObj(<< KV(k2, v2) >>)), KV("data", JArr(<< JObj(<< KV(k3, v3) >>) >>)) >>) :
        k1 \in {"remaining", "quota"}, k2 \in {"remainingPercent", "resetAt"},
        k3 \in {"remaining_fraction", "reset"}, v2 \in ExLegacyVals, v3 \in ExLegacyVals }

ExTexts ==
    { JStr("Remaining: 42.5% (resets 2025-01-02T03:04:05Z)"),
      JStr("remaining 250"),
      JStr("REMAINING:\t0.5"),
      JStr("Remaining: n/a, remaining 1"),
      JStr("quota resets 2025-01-02T03:04:05.25"),
      JStr("Remaining: 100"),
      JStr("no quota data"),
      JStr("") }

ExPayloads == ExAgPayloads \cup ExBucketPayloads \cup ExLegacyPayloads \cup ExTexts

ExInit ==
    /\ ex_pc = "call"
    /\ ex_fn = "none"
    /\ ex_in \in ExPayloads
    /\ ex_out = Ret(None)
    /\ ex_calls = <<>>
    /\ today = ClockDays[1]

ExIdle ==
    /\ ex_pc = "idle" /\ ex_fn = "none" /\ ex_in = JNull /\ ex_out = Ret(None)
    /\ ex_calls = <<>> /\ today = ClockDays[1]

ExReturn(fn, out) ==
    /\ ex_pc = "call"
    /\ ex_pc' = "ret"
    /\ ex_fn' = fn
    /\ ex_out' = out
    /\ UNCHANGED <<ex_in, ex_calls, today>>

ExParseQuotaItems == ExReturn("parse_quota_items", parse_quota_items(ex_in))

ExApiResp == ExReturn("api_resp", _extract_quota_from_api_resp(ex_in))

\* _extract_quota_legacy is reached from _extract_quota_from_api_resp, with a dict.
ExLegacy == ex_in.t = "obj" /\ ExReturn("legacy", _extract_quota_legacy(ex_in))

\* run hands _extract_quota_from_cli_raw the CLI's output text; the function
\* itself also takes a dict.
ExCliRaw ==
    /\ ex_in.t \in {"str", "obj"}
    /\ ExReturn("cli_raw", _extract_quota_from_cli_raw(ex_in))

(***************************************************************************)
(* Claims about the extraction stage.                                      *)
(***************************************************************************)
\* A float in the closed interval [0,1].
InUnit(f) == 0 <= f /\ f <= Scale

\* An Optional[float] that, when present, is in [0,1].
OptInUnit(o) == o = None \/ InUnit(o[1])

\* Every remaining_fraction of a returned quota dict: the top-level one, and
\* those of the tiers and model_quotas of the bucket path.
QuotaInUnit(q) ==
    /\ OptInUnit(q.remaining_fraction)
    /\ "tiers" \in DOMAIN q =>
          /\ \A i \in DOMAIN q.tiers : InUnit(q.tiers[i].remaining_fraction)
          /\ \A i \in DOMAIN q.model_quotas : InUnit(q.model_quotas[i].remaining_fraction)

\* An extraction function has returned a value (it did not raise).
ExReturned == ex_pc = "ret" /\ ~ex_out.raised

\* C3: every remaining_fraction present in a value that leaves the extraction
\* stage lies in [0,1]: in each item of parse_quota_items, and in the dict
\* (its tiers and model_quotas included) returned by
\* _extract_quota_from_api_resp, _extract_quota_legacy and
\* _extract_quota_from_cli_raw.
C3_FractionInUnitInterval ==
    ExReturned =>
        IF ex_fn = "parse_quota_items"
        THEN \A i \in DOMAIN ex_out.value : OptInUnit(ex_out.value[i].remaining_fraction)
        ELSE ex_out.value = None \/ QuotaInUnit(ex_out.value[1])

(***************************************************************************)
(* Text helpers of the probes.                                             *)
(***************************************************************************)
\* str(n) of an int n >= 0.
RECURSIVE IntToStr(_)
IntToStr(n) == IF n < 10 THEN DigitCh(n) ELSE IntToStr(n \div 10) \o DigitCh(n % 10)

\* " ".join(args)
RECURSIVE Join(_)
Join(args) ==
    IF args = <<>> THEN ""
    ELSE IF Len(args) = 1 THEN args[1]
    ELSE args[1] \o " " \o Join(Tail(args))

\* The length of the run of whitespace of s that starts at position i.
SpaceRun(s, i) ==
    Cardinality({ k \in i..Len(s) : \A j \in i..k : IsSpace(SubSeq(s, j, j)) })

\* The length of the run of non-whitespace of s that starts at position i.
NonSpaceRun(s, i) ==
    Cardinality({ k \in i..Len(s) : \A j \in i..k : ~IsSpace(SubSeq(s, j, j)) })

\* s.startswith(prefix)
StartsWith(s, prefix) == Len(prefix) <= Len(s) /\ SubSeq(s, 1, Len(prefix)) = prefix

\* int(s) of a str without surrounding whitespace: [sign] digits.
SignedInt(neg, digits) ==
    IF Len(digits) > 0 /\ AllDigits(digits)
    THEN Ret(IF neg THEN 0 - DigitsVal(digits) ELSE DigitsVal(digits))
    ELSE Raise("ValueError")

IntOfStr(s) ==
    SignedInt(Len(s) > 0 /\ SubSeq(s, 1, 1) = "-",
              IF HasSign(s) THEN SubSeq(s, 2, Len(s)) ELSE s)

\* An ascending sequence of the elements of a finite set of ints: sorted(S).
RECURSIVE Sorted(_)
Sorted(S) ==
    IF S = {} THEN <<>>
    ELSE <<CHOOSE x \in S : \A y \in S : x <= y>>
            \o Sorted(S \ {CHOOSE x \in S : \A y \in S : x <= y})

(***************************************************************************)
(* utils.pretty_pct: f"{remaining_fraction * 100:.1f}%".  The fractions of *)
(* the model are multiples of 0.001, which the format prints exactly.      *)
(***************************************************************************)
\* The text of a percentage given in tenths of a percent.
PctText(tenths) == IntToStr(tenths \div 10) \o "." \o DigitCh(tenths % 10) \o "%"

pretty_pct(remaining_fraction) ==
    IF remaining_fraction = None THEN "?"
    ELSE IF remaining_fraction[1] < 0
    THEN "-" \o PctText((5 - remaining_fraction[1]) \div 10)
    ELSE PctText((remaining_fraction[1] + 5) \div 10)

(***************************************************************************)
(* AntigravityProbe.find_process.  The process table is the sequence of    *)
(* processes psutil.process_iter yields; a field that the OS denies is     *)
(* None.                                                                   *)
(***************************************************************************)
Process(pid, name, args) == [pid |-> pid, name |-> name, cmdline |-> args]

\* (p.info.get("name") or "").lower()
ProcName(proc) == Lower(IF proc.name = None THEN "" ELSE proc.name[1])

\* " ".join(p.info.get("cmdline") or [])
ProcCmdline(proc) == Join(IF proc.cmdline = None THEN <<>> ELSE proc.cmdline[1])

\* The service marker alone.
MutHasMarkers(name, cmdl) ==
    Contains(name, "language_server") \/ Contains(cmdl, "language_server")

\* The two marker tests, on the lowered name and the joined command line.
HasMarkers(name, cmdl) ==
    /\ Contains(name, "language_server") \/ Contains(cmdl, "language_server")
    /\ \/ Contains(Lower(cmdl), "antigravity")
       \/ Contains(Lower(cmdl), "--app_data_dir antigravity")

RECURSIVE ScanFrom(_, _)
ScanFrom(table, i) ==
    IF i > Len(table) THEN None
    ELSE IF HasMarkers(ProcName(table[i]), ProcCmdline(table[i])) THEN Some(table[i])
    ELSE ScanFrom(table, i + 1)

find_process(table) == ScanFrom(table, 1)

(***************************************************************************)
(* AntigravityProbe._extract_flag_from_cmd: the group of                   *)
(* rf"{re.escape(flag)}(?:=|\s+)([^\s]+)" at the leftmost match.           *)
(***************************************************************************)
\* The group ([^\s]+) at position j: n is the length of the run of
\* non-whitespace there.
FlagGroup(s, j, n) == IF n > 0 THEN Some(SubSeq(s, j, j + n - 1)) ELSE None

\* After `nspace` whitespace characters at j (the \s+ alternative).
AfterSpaces(s, j, nspace) ==
    IF nspace > 0 THEN FlagGroup(s, j + nspace, NonSpaceRun(s, j + nspace)) ELSE None

\* What follows the flag, at position j: "=" or whitespace, then the group.
AfterFlag(s, j) ==
    IF j <= Len(s) /\ SubSeq(s, j, j) = "="
    THEN FlagGroup(s, j + 1, NonSpaceRun(s, j + 1))
    ELSE AfterSpaces(s, j, SpaceRun(s, j))

\* The match at position i; None when there is none.
FlagAt(s, flag, i) ==
    IF i + Len(flag) - 1 <= Len(s) /\ SubSeq(s, i, i + Len(flag) - 1) = flag
    THEN AfterFlag(s, i + Len(flag))
    ELSE None

RECURSIVE SearchFlag(_, _, _), SearchFlagStep(_, _, _, _)
SearchFlag(s, flag, i) ==
    IF i > Len(s) THEN None ELSE SearchFlagStep(s, flag, i, FlagAt(s, flag, i))
SearchFlagStep(s, flag, i, m) == IF m # None THEN m ELSE SearchFlag(s, flag, i + 1)

_extract_flag_from_cmd(cmdline, flag) == SearchFlag(cmdline, flag, 1)

(***************************************************************************)
(* AntigravityProbe.get_listening_ports.  net is the outcome of            *)
(* psutil.net_connections, lsof the outcome of the lsof call (its output   *)
(* as the sequence of its lines).                                          *)
(***************************************************************************)
\* A connection; laddr is None when the address is empty.
Conn(status, pid, laddr) == [status |-> status, pid |-> pid, laddr |-> laddr]

\* The ports added by the loop over the connections.
NetPorts(net, pid) ==
    IF net.raised THEN {}
    ELSE { net.value[i].laddr[1] :
             i \in { k \in DOMAIN net.value :
                       /\ net.value[k].status = "LISTEN"
                       /\ net.value[k].pid = pid
                       /\ net.value[k].laddr # None } }

\* The group of r":(\d+)\s+\(LISTEN\)" matched at position i of a line: after
\* the ":", ndigits digits, then nspace whitespace characters, then "(LISTEN)".
ListenTail(line, j, nspace) ==
    nspace > 0 /\ j + nspace + 7 <= Len(line)
        /\ SubSeq(line, j + nspace, j + nspace + 7) = "(LISTEN)"

ListenDigits(line, j, ndigits) ==
    IF ndigits > 0 /\ ListenTail(line, j + ndigits, SpaceRun(line, j + ndigits))
    THEN Some(DigitsVal(SubSeq(line, j, j + ndigits - 1)))
    ELSE None

ListenAt(line, i) ==
    IF SubSeq(line, i, i) = ":" THEN ListenDigits(line, i + 1, DigitRun(line, i + 1))
    ELSE None

RECURSIVE SearchListen(_, _), SearchListenStep(_, _, _)
SearchListen(line, i) ==
    IF i > Len(line) THEN None ELSE SearchListenStep(line, i, ListenAt(line, i))
SearchListenStep(line, i, m) == IF m # None THEN m ELSE SearchListen(line, i + 1)

\* The ports added by the loop over the lines of lsof's output.
LsofPorts(lsof) ==
    IF lsof.raised THEN {}
    ELSE { SearchListen(lsof.value[i], 1)[1] :
             i \in { k \in DOMAIN lsof.value : SearchListen(lsof.value[k], 1) # None } }

\* The lsof fallback taken whatever the primary query found.
MutPortsOrLsof(ports, lsof) == Sorted(ports \cup LsofPorts(lsof))

\* `if not ports:` the lsof fallback, then sorted(ports).
PortsOrLsof(ports, lsof) == Sorted(IF ports = {} THEN LsofPorts(lsof) ELSE ports)

get_listening_ports(pid, net, lsof) == PortsOrLsof(NetPorts(net, pid), lsof)

\* The OS queries get_listening_ports makes.
PortQueries(pid, net) ==
    IF NetPorts(net, pid) = {} THEN <<"net_connections", "lsof">> ELSE <<"net_connections">>

\* [x for x in ports if x != ext_port]
RECURSIVE Without(_, _)
Without(ports, ext_port) ==
    IF ports = <<>> THEN <<>>
    ELSE (IF ports[1] # ext_port THEN <<ports[1]>> ELSE <<>>) \o Without(Tail(ports), ext_port)

\* The hint put in front without removing it from the discovered ports.
MutWithHint(ports, ext_port) ==
    IF ext_port.raised THEN ports ELSE <<ext_port.value>> \o ports

\* The hint moved to the front when int(ext_port_flag) does not raise.
WithHint(ports, ext_port) ==
    IF ext_port.raised THEN ports ELSE <<ext_port.value>> \o Without(ports, ext_port.value)

\* The hint is looked at only when discovery returned a port.
MutCandidates(ext_port_flag, ports) ==
    IF ext_port_flag = None \/ ports = <<>> THEN ports
    ELSE WithHint(ports, IntOfStr(ext_port_flag[1]))

\* The candidate ports of run: `if ext_port_flag:` ...
Candidates(ext_port_flag, ports) ==
    IF ext_port_flag = None THEN ports ELSE WithHint(ports, IntOfStr(ext_port_flag[1]))

(***************************************************************************)
(* HTTP.  The outcome of a request is a transport failure (a               *)
(* requests.RequestException: timeout, connection refused) or a response   *)
(* with a status and a body; the body is None when it is no JSON, in which *)
(* case r.json() raises requests.JSONDecodeError, a RequestException.      *)
(***************************************************************************)
Transport(kind) == [kind |-> kind]
Response(status, body) == [kind |-> "response", status |-> status, body |-> body]

IsResponse(out) == out.kind = "response"
Is200(out) == IsResponse(out) /\ out.status = 200
HasJson(out) == IsResponse(out) /\ out.body # None

\* config.DEFAULT_TIMEOUT = 8.0, the timeout of a probe constructed without one.
DEFAULT_TIMEOUT == 8 * Scale

\* The timeout= argument of a request: the literal 2.0 of the trial requests
\* of probe_connect_port, self.timeout of fetch_user_status, and self.timeout
\* of the GeminiProbe, which main constructs with the default.
TrialTimeout == 2 * Scale

RequestTimeout(kind) ==
    IF kind = "trial" THEN TrialTimeout
    ELSE IF kind \in {"primary", "fallback"} THEN ag_timeout
    ELSE DEFAULT_TIMEOUT

\* The entry of the request log: what was sent, and how it ended.
Sent(kind, port, out) ==
    [kind |-> kind, port |-> port, result |-> out.kind,
     status |-> IF IsResponse(out) THEN out.status ELSE 0,
     json |-> HasJson(out), timeout |-> RequestTimeout(kind)]

\* fetch_user_status, the primary request: the payload returned, None when
\* the code goes on to the fallback.
PrimaryPayload(out) == IF Is200(out) /\ HasJson(out) THEN out.body ELSE None

\* fetch_user_status, the fallback request: the payload returned (by either
\* `return r.json()`), None when the code goes on to raise RuntimeError.
FallbackPayload(out) == IF HasJson(out) THEN out.body ELSE None

(***************************************************************************)
(* The result mappings of the probes.                                      *)
(***************************************************************************)
\* {"ok": False, "reason": reason}
MutFailure(reason) == [ok |-> FALSE]
Failure(reason) == [ok |-> FALSE, reason |-> reason]

\* One element of parsed_items.
ParsedItem(it) ==
    [label |-> it.label,
     remaining_fraction |-> it.remaining_fraction,
     remaining_percent |-> pretty_pct(it.remaining_fraction),
     reset_time |-> IsoOrNone(it.reset_time)]

\* `{...} if mapped else None`
MappedPrimary(mapped) == IF mapped = None THEN None ELSE Some(ParsedItem(mapped[1]))

\* The dict `out` of AntigravityProbe.run.
AgOut(pid, cmdline, connect_port, items, mapped) ==
    [ok |-> TRUE, pid |-> pid, cmdline |-> cmdline, connect_port |-> connect_port,
     items |-> [i \in DOMAIN items |-> ParsedItem(items[i])],
     mapped_primary |-> MappedPrimary(mapped)]

\* run after fetch_user_status returned js: items is the outcome of
\* parse_quota_items, mapped that of best_mapping_choice; an exception of
\* either leaves run.
MutAgMapped(pid, cmdline, connect_port, items, mapped) ==
    IF mapped.raised THEN mapped
    ELSE IF mapped.value = None THEN Ret([ok |-> FALSE, reason |-> "No primary model found"])
    ELSE Ret(AgOut(pid, cmdline, connect_port, items, mapped.value))
AgMapped(pid, cmdline, connect_port, items, mapped) ==
    IF mapped.raised THEN mapped
    ELSE Ret(AgOut(pid, cmdline, connect_port, items, mapped.value))

AgParsed(pid, cmdline, connect_port, items) ==
    IF items.raised THEN items
    ELSE AgMapped(pid, cmdline, connect_port, items.value, best_mapping_choice(items.value))

\* The payload is dropped when nothing was parsed.
MutGmResult(method, parsed, rawkey, payload) ==
    IF parsed.raised THEN parsed
    ELSE Ret([ok |-> TRUE, method |-> method, parsed |-> parsed.value])

\* GeminiProbe.run after a payload was obtained by `method`: parsed is the
\* outcome of the extraction, rawkey the key the payload is kept under when
\* nothing was parsed.
GmResult(method, parsed, rawkey, payload) ==
    IF parsed.raised THEN parsed
    ELSE IF parsed.value # None
    THEN Ret([ok |-> TRUE, method |-> method, parsed |-> parsed.value])
    ELSE IF rawkey = "raw"
    THEN Ret([ok |-> TRUE, method |-> method, parsed |-> None, raw |-> payload])
    ELSE Ret([ok |-> TRUE, method |-> method, parsed |-> None, raw_text |-> payload])

(***************************************************************************)
(* GeminiProbe: credentials, project discovery, the quota API, the CLI.    *)
(***************************************************************************)
\* `creds.get("access_token") or creds.get("token")` under
\* `if creds and isinstance(creds, dict)`; None when the test fails.  file is
\* the outcome of _read_json_file: the parsed JSON, None on any exception.
TokenOf(file) ==
    IF file # None /\ file[1].t = "obj" /\ Truthy(file[1])
    THEN OrElse(Get(file[1], "access_token"), Get(file[1], "token"))
    ELSE JNull

\* The loop of _discover_gemini_project_id over data.get("projects", []): the
\* first projectId that starts with "gen-lang-client"; an exception of
\* project.get or .startswith ends the function with None.
ProjectIdOf(project) ==
    IF project.t # "obj" THEN Raise("AttributeError")
    ELSE IF GetOr(project, "projectId", JStr("")).t # "str" THEN Raise("AttributeError")
    ELSE Ret(GetOr(project, "projectId", JStr("")).s)

RECURSIVE ProjectLoop(_, _), ProjectStep(_, _, _)
ProjectLoop(projects, i) ==
    IF i > Len(projects) THEN None
    ELSE ProjectStep(projects, i, ProjectIdOf(projects[i]))
ProjectStep(projects, i, project_id) ==
    IF project_id.raised THEN None
    ELSE IF StartsWith(project_id.value, "gen-lang-client") THEN Some(project_id.value)
    ELSE ProjectLoop(projects, i + 1)

ProjectsOf(it) == IF it.raised THEN None ELSE ProjectLoop(it.value, 1)

\* data = r.json(): data.get raises on a value that is no dict, and the for
\* loop on a value that is not iterable.
DiscoverFrom(data) ==
    IF data.t # "obj" THEN None
    ELSE ProjectsOf(IterOf(GetOr(data, "projects", JArr(<<>>))))

\* _discover_gemini_project_id: r.raise_for_status() raises on a status of 400
\* and more; every exception gives None.
DiscoveredProject(out) ==
    IF HasJson(out) /\ out.status < 400 THEN DiscoverFrom(out.body[1]) ELSE None

\* try_api_quota after the discovery: r.raise_for_status(); return r.json();
\* None (JNull) on every exception.
ApiResponse(out) == IF HasJson(out) /\ out.status < 400 THEN out.body[1] ELSE JNull

\* The command lines of try_cli_stats, after the binary's path.
Attempts == << <<"stats", "--json">>, <<"/stats", "--json">>, <<"stats">>, <<"/stats">> >>

\* The outcome of one subprocess.check_output call.
CliMissing == [kind |-> "missing"]
CliNonZero == [kind |-> "nonzero"]
CliTimeout == [kind |-> "timeout"]
CliOutput(text) == [kind |-> "output", text |-> text]

\* The payloads of the quota API and of the CLI in the model.
GmBuckets ==
    JObj(<< KV("buckets",
               JArr(<< Bucket(JStr("gemini-2.5-pro"), JNum(Scale \div 5), JStr(ExIsoAware)),
                       Bucket(JStr("gemini-2.5-flash"), JNum((4 * Scale) \div 5), JNull) >>)) >>)

GmOneBucket ==
    JObj(<< KV("buckets",
               JArr(<< JObj(<< KV("modelId", JStr("gemini-2.5-pro")),
                               KV("remainingFraction", JNum(Scale \div 5)) >>) >>)) >>)

GmBadFraction ==
    JObj(<< KV("buckets", JArr(<< Bucket(JStr("gemini-2.5-pro"), JStr("n/a"), JNull) >>)) >>)

GmLegacy == JObj(<< KV("remaining", JInt(75)) >>)

GmNoQuota == JObj(<< KV("error", JObj(<< KV("code", JInt(403)) >>)) >>)

\* json.loads on the CLI outputs of the model; every other text of the model
\* is no JSON.
json_loads(text) ==
    CASE text = "{\"buckets\": [{\"modelId\": \"gemini-2.5-pro\", \"remainingFraction\": 0.2}]}"
            -> Ret(GmOneBucket)
      [] text = "{}" -> Ret(JObj(<<>>))
      [] text = "42" -> Ret(JInt(42))
      [] text = "null" -> Ret(JNull)
      [] OTHER -> Raise("JSONDecodeError")

\* The dict try_cli_stats returns for the stripped output out: parsed is the
\* outcome of json.loads(out).
CliResp(out, parsed) ==
    IF parsed.raised THEN [source |-> "cli-raw", payload |-> JStr(out)]
    ELSE [source |-> "cli-json", payload |-> parsed.value]

\* run on the dict try_cli_stats returned.
GmFromCli(cli_resp) ==
    IF cli_resp.source = "cli-json"
    THEN GmResult("cli-json", _extract_quota_from_api_resp(cli_resp.payload),
                  "raw", cli_resp.payload)
    ELSE GmResult("cli-raw", _extract_quota_from_cli_raw(cli_resp.payload),
                  "raw_text", cli_resp.payload)

(***************************************************************************)
(* The environment of a run: what the collaborators may answer.            *)
(***************************************************************************)
\* The language server's arguments: token and port hint in both flag forms,
\* a hint that is no listening port, a hint that is no int, no hint, no token.
AgArgs ==
    { <<"--csrf_token=t0k", "--extension_server_port=7002">>,
      <<"--extension_server_port", "7003", "--csrf_token", "t0k">>,
      <<"--csrf_token=t0k", "--extension_server_port=auto">>,
      <<"--csrf_token=t0k">>,
      <<"--extension_server_port=7001">>,
      <<>> }

LanguageServer(args) ==
    Process(42, Some("language_server_linux"),
            Some(<<"/opt/Antigravity/language_server">> \o args))

Shell == Process(7, Some("bash"), Some(<<"bash", "-l">>))
OtherServer ==
    Process(9, Some("language_server"), Some(<<"language_server", "--ide", "windsurf">>))
Denied == Process(1, None, None)

ProcTables ==
    { <<>>, <<Shell, OtherServer, Denied>> }
        \cup { <<Shell, LanguageServer(args)>> : args \in AgArgs }

NetOutcomes ==
    { Raise("AccessDenied"),
      Ret(<<>>),
      Ret(<< Conn("LISTEN", 42, Some(7002)), Conn("ESTABLISHED", 42, Some(7005)),
             Conn("LISTEN", 7, Some(7004)), Conn("LISTEN", 42, None),
             Conn("LISTEN", 42, Some(7001)) >>) }

LsofOutcomes ==
    { Raise("FileNotFoundError"),
      Ret(<< "COMMAND PID USER FD TYPE NAME" >>),
      Ret(<< "COMMAND PID USER FD TYPE NAME",
             "language_ 42 me 9u IPv4 TCP 127.0.0.1:7001 (LISTEN)" >>) }

TrialOutcomes ==
    { Transport("timeout"), Transport("refused"), Response(200, None), Response(404, None) }

AgGood ==
    UserStatus(JArr(<< Config(JStr("Gemini 3 Pro (Low)"), JNum((9 * Scale) \div 10), JNull),
                       Config(JStr("Claude Sonnet 4.5"), JNum(Scale \div 2), JStr(ExIsoAware)) >>))

AgNoPrimary == UserStatus(JArr(<< Config(JStr("GPT-OSS 120B"), JNull, JNull) >>))

AgBadEntry == UserStatus(JArr(<< JInt(1) >>))

AgBadLabel == UserStatus(JArr(<< JObj(<< KV("label", JInt(7)) >>) >>))

AgErrorBody == JObj(<< KV("code", JStr("unimplemented")) >>)

AgBodies == { AgGood, AgNoPrimary, AgBadEntry, AgBadLabel, AgErrorBody }

FetchOutcomes ==
    { Transport("timeout"), Transport("refused") }
        \cup { Response(status, body) :
                 status \in {200, 404}, body \in {None} \cup { Some(b) : b \in AgBodies } }

CredsFiles ==
    { None,
      Some(JObj(<< KV("access_token", JStr("ya29")) >>)),
      Some(JObj(<< KV("access_token", JStr("")), KV("token", JStr("ya29")) >>)),
      Some(JObj(<< KV("refresh_token", JStr("1//0")) >>)),
      Some(JArr(<< JStr("ya29") >>)) }

DiscoverOutcomes ==
    { Transport("timeout"),
      Response(403, Some(GmNoQuota)),
      Response(200, Some(JObj(<< KV("projects",
          JArr(<< JObj(<< KV("projectId", JStr("my-project")) >>),
                  JObj(<< KV("projectId", JStr("gen-lang-client-0123")) >>) >>)) >>))) }

QuotaBodies ==
    { GmBuckets, GmBadFraction, GmLegacy, GmNoQuota, JObj(<<>>), JArr(<< JInt(1) >>) }

QuotaOutcomes ==
    { Transport("timeout"), Transport("refused"), Response(200, None),
      Response(403, Some(GmNoQuota)) }
        \cup { Response(200, Some(b)) : b \in QuotaBodies }

CliOutcomes ==
    { CliMissing, CliNonZero, CliTimeout }
        \cup { CliOutput(text) :
                 text \in { "{\"buckets\": [{\"modelId\": \"gemini-2.5-pro\", \"remainingFraction\": 0.2}]}\n",
                            "{}\n",
                            "42\n",
                            "null",
                            "Remaining: 42.5% (resets 2025-01-02T03:04:05Z)\n",
                            "" } }

(***************************************************************************)
(* main and the two run methods, as one sequential process.  pc is its     *)
(* position; each action is the code from one call of a collaborator (the  *)
(* process table, the OS port queries, an HTTP request, the credential     *)
(* file, the CLI) to the next, and draws that collaborator's answer.       *)
(***************************************************************************)
\* The provider argument of main: None (all), the two names main tests for,
\* and the name "gemini" of its docstring.
Providers == { None, Some("antigravity"), Some("gemini_cli"), Some("gemini") }

\* `provider is None or provider == name`
Selected(prov, name) == prov = None \/ prov = Some(name)

\* A dict without keys.
EmptyMap == [k \in {} |-> None]

\* d[k] = v
Put(d, k, v) == [x \in DOMAIN d \cup {k} |-> IF x = k THEN v ELSE d[x]]

\* The locals of AntigravityProbe.run before its first statement; procs is the
\* process table find_process scanned, listening what get_listening_ports
\* returned, port_i the position of probe_connect_port in its loop.
AgFrame0 ==
    [procs |-> <<>>, p |-> None, cmdline |-> "", csrf_token |-> None,
     ext_port_flag |-> None, listening |-> <<>>, ports |-> <<>>, port_i |-> 0,
     connect_port |-> None, js |-> None]

\* The locals of GeminiProbe.run before its first statement; cli_i is the
\* position of try_cli_stats in its loop and cli_last how its latest
\* invocation ended.
GmFrame0 ==
    [creds |-> None, token |-> JNull, project_id |-> None, api_resp |-> JNull,
     cli_i |-> 0, cli_last |-> "", cli_resp |-> None]

RunInit ==
    /\ provider \in Providers
    /\ pc = "main"
    /\ results = EmptyMap
    /\ run_out = EmptyMap
    /\ ag = AgFrame0
    /\ gm = GmFrame0
    /\ http_log = <<>>
    /\ os_log = <<>>
    /\ cli_log = <<>>
    /\ ag_timeout = DEFAULT_TIMEOUT

\* main at rest, in the specifications of the other components.
RunIdle ==
    /\ provider = None
    /\ pc = "idle"
    /\ results = EmptyMap
    /\ run_out = EmptyMap
    /\ ag = AgFrame0
    /\ gm = GmFrame0
    /\ http_log = <<>>
    /\ os_log = <<>>
    /\ cli_log = <<>>
    /\ ag_timeout = DEFAULT_TIMEOUT

\* The try/except of main around run(): the entry stored in results.
Caught(outcome) ==
    IF outcome.raised THEN Failure("exception: " \o outcome.error) ELSE outcome.value

\* The run of probe `name` ends with `outcome` (a returned mapping or an
\* exception), and main stores the entry.
RunEnds(name, outcome, done) ==
    /\ run_out' = Put(run_out, name, outcome)
    /\ results' = Put(results, name, Caught(outcome))
    /\ pc' = done

AgReturn(outcome) == RunEnds("antigravity", outcome, "ag_done")

GmReturn(outcome) == RunEnds("gemini_cli", outcome, "gm_done")

\* run goes on to the statement at `next`.
Goto(next) == pc' = next /\ UNCHANGED <<results, run_out>>

\* The first probe main runs.
MainStart ==
    /\ pc = "main"
    /\ pc' = IF Selected(provider, "antigravity") THEN "ag_find"
             ELSE IF Selected(provider, "gemini_cli") THEN "gm_creds"
             ELSE "done"
    /\ UNCHANGED <<provider, results, run_out, ag, gm, http_log, os_log, cli_log>>

\* p = self.find_process(); if p is None: return ...
MutAgFound(table, found) ==
    /\ ag' = [ag EXCEPT !.procs = table, !.p = found]
    /\ os_log' = Append(os_log, "net_connections")
    /\ IF found = None
       THEN AgReturn(Ret([ok |-> FALSE, reason |-> "Antigravity language server process not found"]))
       ELSE Goto("ag_cmdline")
    /\ UNCHANGED <<provider, gm, http_log, cli_log>>
AgFound(table, found) ==
    /\ ag' = [ag EXCEPT !.procs = table, !.p = found]
    /\ IF found = None
       THEN AgReturn(Ret(Failure("Antigravity language server process not found")))
       ELSE Goto("ag_cmdline")
    /\ UNCHANGED <<provider, gm, http_log, os_log, cli_log>>

AgFindProcess ==
    /\ pc = "ag_find"
    /\ \E table \in ProcTables : AgFound(table, find_process(table))

\* cmdline = " ".join(p.cmdline()), "" when the call raises; the two flags.
AgCmdline(c) ==
    /\ ag' = [ag EXCEPT !.cmdline = c,
                        !.csrf_token = _extract_flag_from_cmd(c, "--csrf_token"),
                        !.ext_port_flag = _extract_flag_from_cmd(c, "--extension_server_port")]
    /\ Goto("ag_ports")
    /\ UNCHANGED <<provider, gm, http_log, os_log, cli_log>>

AgReadCmdline ==
    /\ pc = "ag_cmdline"
    /\ \E readable \in BOOLEAN :
          AgCmdline(IF readable THEN Join(ag.p[1].cmdline[1]) ELSE "")

\* The two tests in the other order: the ports first.
MutAgCandidates(listening, ports, queries) ==
    /\ os_log' = os_log \o queries
    /\ IF ports = <<>>
       THEN /\ ag' = [ag EXCEPT !.listening = listening, !.ports = ports]
            /\ AgReturn(Ret(Failure("No listening ports found for pid "
                                        \o IntToStr(ag.p[1].pid))))
       ELSE IF ag.csrf_token = None \/ ag.csrf_token = Some("")
       THEN /\ ag' = [ag EXCEPT !.listening = listening, !.ports = ports]
            /\ AgReturn(Ret(Failure("CSRF token not found in process arguments")))
       ELSE /\ ag' = [ag EXCEPT !.listening = listening, !.ports = ports, !.port_i = 1]
            /\ Goto("ag_trial")
    /\ UNCHANGED <<provider, gm, http_log, cli_log>>

\* ports = self.get_listening_ports(pid), the hint, and the two tests that
\* precede probe_connect_port.
AgCandidates(listening, ports, queries) ==
    /\ os_log' = os_log \o queries
    /\ IF ag.csrf_token = None \/ ag.csrf_token = Some("")
       THEN /\ ag' = [ag EXCEPT !.listening = listening, !.ports = ports]
            /\ AgReturn(Ret(Failure("CSRF token not found in process arguments")))
       ELSE IF ports = <<>>
       THEN /\ ag' = [ag EXCEPT !.listening = listening, !.ports = ports]
            /\ AgReturn(Ret(Failure("No listening ports found for pid "
                                        \o IntToStr(ag.p[1].pid))))
       ELSE /\ ag' = [ag EXCEPT !.listening = listening, !.ports = ports, !.port_i = 1]
            /\ Goto("ag_trial")
    /\ UNCHANGED <<provider, gm, http_log, cli_log>>

AgPorts(listening, queries) ==
    AgCandidates(listening, Candidates(ag.ext_port_flag, listening), queries)

AgListeningPorts ==
    /\ pc = "ag_ports"
    /\ \E net \in NetOutcomes, lsof \in LsofOutcomes :
          AgPorts(get_listening_ports(ag.p[1].pid, net, lsof), PortQueries(ag.p[1].pid, net))

\* One round of the loop, with `break` in place of `continue`.
MutAgTried(port, out) ==
    /\ http_log' = Append(http_log, Sent("trial", port, out))
    /\ IF Is200(out)
       THEN /\ ag' = [ag EXCEPT !.connect_port = Some(port)]
            /\ Goto("ag_primary")
       ELSE /\ ag' = ag
            /\ AgReturn(Ret(Failure("Could not find working connect port (probe failed)")))
    /\ UNCHANGED <<provider, gm, os_log, cli_log>>

\* One round of the loop of probe_connect_port, and `if not connect_port` of
\* run when the loop ends.
AgTried(port, out) ==
    /\ http_log' = Append(http_log, Sent("trial", port, out))
    /\ IF Is200(out)
       THEN /\ ag' = [ag EXCEPT !.connect_port = Some(port)]
            /\ IF port = 0
               THEN AgReturn(Ret(Failure("Could not find working connect port (probe failed)")))
               ELSE Goto("ag_primary")
       ELSE IF ag.port_i < Len(ag.ports)
       THEN /\ ag' = [ag EXCEPT !.port_i = @ + 1]
            /\ Goto("ag_trial")
       ELSE /\ ag' = ag
            /\ AgReturn(Ret(Failure("Could not find working connect port (probe failed)")))
    /\ UNCHANGED <<provider, gm, os_log, cli_log>>

AgTrial ==
    /\ pc = "ag_trial"
    /\ \E out \in TrialOutcomes : AgTried(ag.ports[ag.port_i], out)

\* fetch_user_status, the primary request.
AgPrimaryDone(out, payload) ==
    /\ http_log' = Append(http_log, Sent("primary", ag.connect_port[1], out))
    /\ IF payload # None
       THEN ag' = [ag EXCEPT !.js = payload] /\ Goto("ag_parse")
       ELSE ag' = ag /\ Goto("ag_fallback")
    /\ UNCHANGED <<provider, gm, os_log, cli_log>>

AgPrimary ==
    /\ pc = "ag_primary"
    /\ \E out \in FetchOutcomes : AgPrimaryDone(out, PrimaryPayload(out))

\* fetch_user_status raises RuntimeError, and run's `except Exception as e`
\* returns its text in the reason.
FetchFailed == Raise("Antigravity quota endpoints failed")

FetchFailure(e) == Failure("Failed to fetch user status: " \o e.error)

\* fetch_user_status, the fallback request.
AgFallbackDone(out, payload) ==
    /\ http_log' = Append(http_log, Sent("fallback", ag.connect_port[1], out))
    /\ IF payload # None
       THEN ag' = [ag EXCEPT !.js = payload] /\ Goto("ag_parse")
       ELSE ag' = ag /\ AgReturn(Ret(FetchFailure(FetchFailed)))
    /\ UNCHANGED <<provider, gm, os_log, cli_log>>

AgFallback ==
    /\ pc = "ag_fallback"
    /\ \E out \in FetchOutcomes : AgFallbackDone(out, FallbackPayload(out))

\* items = self.parse_quota_items(js) to the end of run.
AgFinish ==
    /\ pc = "ag_parse"
    /\ AgReturn(AgParsed(ag.p[1].pid, ag.cmdline, ag.connect_port[1],
                         parse_quota_items(ag.js[1])))
    /\ UNCHANGED <<provider, ag, gm, http_log, os_log, cli_log>>

\* run has returned to main: its locals are gone; main goes on to the next
\* probe, whose run starts with empty logs.
MutMainAfterAntigravity ==
    /\ pc = "ag_done"
    /\ pc' = IF Selected(provider, "gemini_cli") /\ ~run_out.antigravity.raised
             THEN "gm_creds" ELSE "done"
    /\ ag' = AgFrame0
    /\ http_log' = <<>>
    /\ os_log' = <<>>
    /\ UNCHANGED <<provider, results, run_out, gm, cli_log>>
MainAfterAntigravity ==
    /\ pc = "ag_done"
    /\ pc' = IF Selected(provider, "gemini_cli") THEN "gm_creds" ELSE "done"
    /\ ag' = AgFrame0
    /\ http_log' = <<>>
    /\ os_log' = <<>>
    /\ UNCHANGED <<provider, results, run_out, gm, cli_log>>

\* creds = self._read_json_file(creds_path) and the token.
GmCreds(file, token) ==
    /\ gm' = [gm EXCEPT !.creds = file, !.token = token,
                        !.cli_i = IF Truthy(token) THEN 0 ELSE 1]
    /\ Goto(IF Truthy(token) THEN "gm_discover" ELSE "gm_cli")
    /\ UNCHANGED <<provider, ag, http_log, os_log, cli_log>>

GmReadCreds ==
    /\ pc = "gm_creds"
    /\ \E file \in CredsFiles : GmCreds(file, TokenOf(file))

\* try_api_quota: project_id = self._discover_gemini_project_id(access_token)
GmDiscover ==
    /\ pc = "gm_discover"
    /\ \E out \in DiscoverOutcomes :
          /\ gm' = [gm EXCEPT !.project_id = DiscoveredProject(out)]
          /\ http_log' = Append(http_log, Sent("discover", 443, out))
    /\ Goto("gm_quota")
    /\ UNCHANGED <<provider, ag, os_log, cli_log>>

\* try_api_quota: the quota request; then `if api_resp:` of run.
GmApi(out, api_resp) ==
    /\ http_log' = Append(http_log, Sent("quota", 443, out))
    /\ IF Truthy(api_resp)
       THEN /\ gm' = [gm EXCEPT !.api_resp = api_resp]
            /\ GmReturn(GmResult("api", _extract_quota_from_api_resp(api_resp),
                                 "raw", api_resp))
       ELSE /\ gm' = [gm EXCEPT !.api_resp = api_resp, !.cli_i = 1]
            /\ Goto("gm_cli")
    /\ UNCHANGED <<provider, ag, os_log, cli_log>>

GmQuota ==
    /\ pc = "gm_quota"
    /\ \E out \in QuotaOutcomes : GmApi(out, ApiResponse(out))

\* The last statement of GeminiProbe.run.
NoGemini == Failure("No Gemini credentials or CLI output found / parsed")

\* try_cli_stats returned cli_resp: `if cli_resp:` of run.
GmCliOutput(cli_resp) ==
    /\ gm' = [gm EXCEPT !.cli_last = "output", !.cli_resp = Some(cli_resp)]
    /\ GmReturn(GmFromCli(cli_resp))

\* out = out.strip(); json.loads(out)
CliStripped(out) == GmCliOutput(CliResp(out, json_loads(out)))

\* One round of the loop of try_cli_stats, and the rest of run when the loop
\* ends.
MutGmCliTried(out) ==
    /\ cli_log' = Append(cli_log, Attempts[gm.cli_i])
    /\ IF out.kind = "output" THEN CliStripped(Strip(out.text))
       ELSE IF out.kind \in {"missing", "timeout"}
       THEN gm' = [gm EXCEPT !.cli_last = out.kind] /\ GmReturn(Ret(NoGemini))
       ELSE IF gm.cli_i < Len(Attempts)
       THEN gm' = [gm EXCEPT !.cli_last = out.kind, !.cli_i = @ + 1] /\ Goto("gm_cli")
       ELSE gm' = [gm EXCEPT !.cli_last = out.kind] /\ GmReturn(Ret(NoGemini))
    /\ UNCHANGED <<provider, ag, http_log, os_log>>

\* One round of the loop, with FileNotFoundError handled as the other
\* exceptions are (`continue`).
MutCliMissingGoesOn(out) ==
    /\ cli_log' = Append(cli_log, Attempts[gm.cli_i])
    /\ IF out.kind = "output" THEN CliStripped(Strip(out.text))
       ELSE IF gm.cli_i < Len(Attempts)
       THEN gm' = [gm EXCEPT !.cli_last = out.kind, !.cli_i = @ + 1] /\ Goto("gm_cli")
       ELSE gm' = [gm EXCEPT !.cli_last = out.kind] /\ GmReturn(Ret(NoGemini))
    /\ UNCHANGED <<provider, ag, http_log, os_log>>

GmCliTried(out) ==
    /\ cli_log' = Append(cli_log, Attempts[gm.cli_i])
    /\ IF out.kind = "output" THEN CliStripped(Strip(out.text))
       ELSE IF out.kind = "missing"
       THEN gm' = [gm EXCEPT !.cli_last = out.kind] /\ GmReturn(Ret(NoGemini))
       ELSE IF gm.cli_i < Len(Attempts)
       THEN gm' = [gm EXCEPT !.cli_last = out.kind, !.cli_i = @ + 1] /\ Goto("gm_cli")
       ELSE gm' = [gm EXCEPT !.cli_last = out.kind] /\ GmReturn(Ret(NoGemini))
    /\ UNCHANGED <<provider, ag, http_log, os_log>>

GmCli ==
    /\ pc = "gm_cli"
    /\ \E out \in CliOutcomes : GmCliTried(out)

MainAfterGemini ==
    /\ pc = "gm_done"
    /\ pc' = "done"
    /\ gm' = GmFrame0
    /\ http_log' = <<>>
    /\ cli_log' = <<>>
    /\ UNCHANGED <<provider, results, run_out, ag, os_log>>

(***************************************************************************)
(* Claims about main and the run methods (checked under Spec).             *)
(***************************************************************************)
\* The entries of the request log of one kind, in order.
OfKind(kind) == SelectSeq(http_log, LAMBDA e : e.kind = kind)

\* AntigravityProbe.run has just ended: its locals and logs are those of the
\* run, and run_out.antigravity is its outcome.
AgEnded == pc = "ag_done"

\* GeminiProbe.run has just ended.
GmEnded == pc = "gm_done"

\* The mappings the run methods have returned so far.
Returned == { run_out[k].value : k \in { n \in DOMAIN run_out : ~run_out[n].raised } }

\* The keys that only a successful probe sets.
ProbeFields ==
    { "pid", "cmdline", "connect_port", "items", "mapped_primary",
      "method", "parsed", "raw", "raw_text" }

\* C4: every mapping returned by AntigravityProbe.run or GeminiProbe.run has
\* an "ok" key; with ok false it has a non-empty reason and none of the
\* probe-specific fields; with ok true it has no reason.
C4_ResultShape ==
    \A m \in Returned :
        /\ "ok" \in DOMAIN m
        /\ ~m.ok => /\ "reason" \in DOMAIN m
                    /\ m.reason # ""
                    /\ DOMAIN m \cap ProbeFields = {}
        /\ m.ok => "reason" \notin DOMAIN m

\* Both probes have returned, one a failure and one a success.
C4_Witness ==
    /\ pc = "done"
    /\ DOMAIN run_out = {"antigravity", "gemini_cli"}
    /\ ~run_out.antigravity.raised /\ ~run_out.antigravity.value.ok
    /\ ~run_out.gemini_cli.raised /\ run_out.gemini_cli.value.ok

\* The four not-found conditions of a run of the Antigravity probe that has
\* ended.
NoProcess == AgEnded /\ ag.p = None

TokenFound == ag.csrf_token # None /\ ag.csrf_token # Some("")

\* get_listening_ports was called and returned no port.
NoListeningPort == AgEnded /\ os_log # <<>> /\ ag.listening = <<>>

\* A token was found and there is no candidate port: no listening port and
\* no integer hint.
NoCandidate == AgEnded /\ os_log # <<>> /\ TokenFound /\ ag.ports = <<>>

\* Trials were made and none returned status 200.
NoLivePort ==
    /\ AgEnded
    /\ OfKind("trial") # <<>>
    /\ \A i \in DOMAIN OfKind("trial") : OfKind("trial")[i].status # 200

\* The payload was parsed and best_mapping_choice chose no item.
NoChoice(items) == ~items.raised /\ best_mapping_choice(items.value) = Ret(None)

NoPrimary == AgEnded /\ ag.js # None /\ NoChoice(parse_quota_items(ag.js[1]))

NotFoundReason == "Antigravity language server process not found"
NoPortsReason == "No listening ports found for pid 42"
NoLivePortReason == "Could not find working connect port (probe failed)"

\* C5 as stated: each of the four not-found conditions (no matching process,
\* no listening port, no live port, no primary model) makes run return
\* ok=false with the reason of that condition, and none raises.
C5_NotFoundIsFailure ==
    /\ NoProcess => run_out.antigravity = Ret(Failure(NotFoundReason))
    /\ NoListeningPort => run_out.antigravity = Ret(Failure(NoPortsReason))
    /\ NoLivePort => run_out.antigravity = Ret(Failure(NoLivePortReason))
    /\ NoPrimary => /\ ~run_out.antigravity.raised
                    /\ ~run_out.antigravity.value.ok
                    /\ run_out.antigravity.value.reason # ""

\* C5, amended: no matching process, no candidate port once a token was
\* found, and no live port each make run return ok=false with the reason of
\* that condition; when the selection policy chooses no primary model run
\* returns ok=true with mapped_primary None; none of the four raises.
C5_NotFoundConditions ==
    /\ NoProcess => run_out.antigravity = Ret(Failure(NotFoundReason))
    /\ NoCandidate => run_out.antigravity = Ret(Failure(NoPortsReason))
    /\ NoLivePort => run_out.antigravity = Ret(Failure(NoLivePortReason))
    /\ NoPrimary => /\ ~run_out.antigravity.raised
                    /\ run_out.antigravity.value.ok
                    /\ run_out.antigravity.value.mapped_primary = None

\* A run that fetched a payload with items of which the policy chooses none.
C5_Witness ==
    /\ NoPrimary
    /\ parse_quota_items(ag.js[1]).value # <<>>
    /\ run_out.antigravity.value.items # <<>>

\* C6: when no process matches, run returns ok=false with the
\* process-not-found reason, and that run makes no port query and sends no
\* HTTP request.
C6_NoTransportWithoutProcess ==
    NoProcess =>
        /\ run_out.antigravity = Ret(Failure(NotFoundReason))
        /\ os_log = <<>>
        /\ http_log = <<>>

\* The scan went over a table with processes, none of them the server.
C6_Witness == NoProcess /\ ag.procs # <<>> /\ "antigravity" \in DOMAIN results

\* C7: neither run method lets an exception escape, whatever the
\* collaborators answer.
C7_RunNeverRaises == \A k \in DOMAIN run_out : ~run_out[k].raised

\* The probes main selects.
SelectedProbes == { k \in {"antigravity", "gemini_cli"} : Selected(provider, k) }

\* C8: every entry of results is a mapping with an "ok" key, and that of a
\* run that raised is ok=false with a reason containing the exception text;
\* when main is done every selected probe has run and has its entry, so an
\* exception of the Antigravity probe does not keep the Gemini probe from
\* running.
C8_MainWrapsRun ==
    /\ DOMAIN results = DOMAIN run_out
    /\ \A k \in DOMAIN results :
          /\ "ok" \in DOMAIN results[k]
          /\ run_out[k].raised =>
                /\ ~results[k].ok
                /\ Contains(results[k].reason, run_out[k].error)
          /\ ~run_out[k].raised => results[k] = run_out[k].value
    /\ pc = "done" => DOMAIN results = SelectedProbes

\* Both probes were selected, the Antigravity probe raised, and the Gemini
\* probe has run.
C8_Witness ==
    /\ pc = "done"
    /\ provider = None
    /\ run_out.antigravity.raised
    /\ "gemini_cli" \in DOMAIN results

\* fetch_user_status has ended: it returned a payload or raised.
Fetched == OfKind("primary") # <<>> /\ pc \in {"ag_parse", "ag_done"}

\* A request that ended in a transport failure or with a status other than 200.
Failed(e) == e.result # "response" \/ e.status # 200

FetchFailedReason == "Failed to fetch user status: Antigravity quota endpoints failed"

\* C9: fetch_user_status returns the primary payload when the primary
\* request succeeds; after a transport failure or non-success status of the
\* primary it sends exactly one fallback request on the same port; when the
\* fallback too ends in a transport failure or a non-success status it
\* raises, and run reports the error's text in an ok=false reason.
C9_FetchUserStatus ==
    Fetched =>
        /\ Len(OfKind("primary")) = 1
        /\ ~Failed(OfKind("primary")[1]) /\ OfKind("primary")[1].json =>
              OfKind("fallback") = <<>> /\ ag.js # None
        /\ Failed(OfKind("primary")[1]) =>
              /\ Len(OfKind("fallback")) = 1
              /\ OfKind("fallback")[1].port = OfKind("primary")[1].port
        /\ OfKind("fallback") # <<>> /\ Failed(OfKind("fallback")[1]) =>
              /\ ag.js = None
              /\ pc = "ag_done"
              /\ run_out.antigravity = Ret(Failure(FetchFailedReason))

\* The chains of the Antigravity probe: a failed trial is followed by the
\* trial of the next candidate, a failed primary request by the fallback
\* request, and a failure is returned only when all have failed.
AgChains ==
    /\ pc = "ag_trial" =>
          /\ Len(OfKind("trial")) = ag.port_i - 1
          /\ ag.port_i <= Len(ag.ports)
          /\ \A i \in DOMAIN OfKind("trial") : Failed(OfKind("trial")[i])
    /\ AgEnded /\ run_out.antigravity = Ret(Failure(NoLivePortReason)) =>
          /\ Len(OfKind("trial")) = Len(ag.ports)
          /\ \A i \in DOMAIN OfKind("trial") : Failed(OfKind("trial")[i])
    /\ pc = "ag_fallback" =>
          /\ Len(OfKind("primary")) = 1 /\ OfKind("fallback") = <<>>
          /\ Failed(OfKind("primary")[1]) \/ ~OfKind("primary")[1].json
    /\ AgEnded /\ run_out.antigravity = Ret(Failure(FetchFailedReason)) =>
          /\ Len(OfKind("primary")) = 1 /\ Len(OfKind("fallback")) = 1
          /\ Failed(OfKind("primary")[1]) \/ ~OfKind("primary")[1].json
          /\ Failed(OfKind("fallback")[1]) \/ ~OfKind("fallback")[1].json

\* The API chain of the Gemini probe: whatever the discovery request did,
\* the quota request follows, and the CLI is turned to only after it.
GmApiChain ==
    /\ pc = "gm_quota" => Len(OfKind("discover")) = 1 /\ OfKind("quota") = <<>>
    /\ pc \in {"gm_cli", "gm_done"} /\ Truthy(gm.token) =>
          Len(OfKind("discover")) = 1 /\ Len(OfKind("quota")) = 1

\* try_cli_stats has returned None, and run its last failure.
CliFailed == GmEnded /\ cli_log # <<>> /\ gm.cli_resp = None

\* The CLI chain while it lasts: a failed invocation is followed by the
\* next variant.
CliGoesOn ==
    pc = "gm_cli" =>
        /\ Len(cli_log) = gm.cli_i - 1
        /\ gm.cli_i <= Len(Attempts)
        /\ cli_log = SubSeq(Attempts, 1, Len(cli_log))
        /\ cli_log # <<>> => gm.cli_last \in {"nonzero", "timeout"}

\* C10 as stated: in every chain a failed call is followed by the next
\* alternative, and a failure is reported upward only after every
\* alternative of the chain was attempted and failed.
C10_OnlyExhaustionFails ==
    /\ AgChains
    /\ GmApiChain
    /\ CliGoesOn
    /\ CliFailed => cli_log = Attempts

\* C10, amended: as stated, except that an invocation that fails because the
\* CLI binary does not exist ends try_cli_stats at once.
C10_ChainsExhaust ==
    /\ AgChains
    /\ GmApiChain
    /\ CliGoesOn
    /\ CliFailed =>
          \/ cli_log = Attempts /\ gm.cli_last \in {"nonzero", "timeout"}
          \/ gm.cli_last = "missing" /\ cli_log = SubSeq(Attempts, 1, Len(cli_log))

\* The API call failed, and so did all four variants of the CLI.
C10_Witness ==
    /\ CliFailed
    /\ cli_log = Attempts
    /\ Truthy(gm.token)
    /\ Failed(OfKind("quota")[1])
    /\ run_out.gemini_cli = Ret(NoGemini)

(***************************************************************************)
(* Further claims about the extraction stage (checked under SpecExtract).  *)
(***************************************************************************)
\* An Optional[datetime] that, when present, is timezone-aware.
OptAware(odt) == odt = None \/ odt[1].tz = "UTC"

\* An Optional isoformat text that, when present, carries a UTC offset.
OptAwareText(os) ==
    os = None \/ (Len(os[1]) >= 6 /\ SubSeq(os[1], Len(os[1]) - 5, Len(os[1])) = "+00:00")

\* Every reset_time of a returned quota dict: the top-level one, and those of
\* the tiers and model_quotas of the bucket path.
QuotaAware(q) ==
    /\ OptAwareText(q.reset_time)
    /\ "tiers" \in DOMAIN q =>
          /\ \A i \in DOMAIN q.tiers : OptAwareText(q.tiers[i].reset_time)
          /\ \A i \in DOMAIN q.model_quotas : OptAwareText(q.model_quotas[i].reset_time)

\* C19: every reset_time present in a value that leaves the extraction stage
\* is a timezone-aware instant, never a naive time: in each item of
\* parse_quota_items, and in the dict returned by the bucket, legacy and
\* free-text paths of the Gemini extraction, also for a time string without a
\* timezone designator.
C19_ResetTimeAware ==
    ExReturned =>
        IF ex_fn = "parse_quota_items"
        THEN \A i \in DOMAIN ex_out.value : OptAware(ex_out.value[i].reset_time)
        ELSE ex_out.value = None \/ QuotaAware(ex_out.value[1])

\* Entries that are well-formed but for their fields: a remaining fraction
\* that is a number, a numeric text, no number ("abc") or absent, and a reset
\* time that is a time, no time ("soon") or absent.
FieldConfigs ==
    { Config(JStr("Claude Sonnet"), r, t) : r \in ExFractionVals, t \in ExTimeVals }

FieldBuckets ==
    { Bucket(JStr(m), r, t) :
        m \in {"gemini-2.5-pro", "Gemini-2.5-Flash"},
        r \in { JNum(Scale \div 5), JNum((4 * Scale) \div 5), JStr("abc") },
        t \in { JNull, JStr(ExIsoNaive), JStr("soon") } }

\* The payloads of the claim: lists of such entries.
FieldPayload ==
    \/ ex_fn = "parse_quota_items"
         /\ ex_in \in { UserStatus(JArr(cs)) : cs \in SeqUpTo(FieldConfigs, MaxConfigs) }
    \/ ex_fn = "api_resp"
         /\ ex_in \in { JObj(<< KV("buckets", JArr(bs)) >>) :
                          bs \in SeqUpTo(FieldBuckets, MaxBuckets) \ { <<>> } }

\* The entries of the payload.
FieldEntries ==
    IF ex_fn = "parse_quota_items"
    THEN Get(Get(Get(ex_in, "userStatus"), "cascadeModelConfigData"), "clientModelConfigs").xs
    ELSE Get(ex_in, "buckets").xs

\* The two fields of an entry, as the payload gives them.
FieldFraction(e) ==
    IF ex_fn = "parse_quota_items"
    THEN Get(Get(e, "quotaInfo"), "remainingFraction")
    ELSE Get(e, "remainingFraction")

FieldReset(e) ==
    IF ex_fn = "parse_quota_items"
    THEN Get(Get(e, "quotaInfo"), "resetTime")
    ELSE Get(e, "resetTime")

\* The items the function returned: the list of parse_quota_items, the
\* model_quotas of the bucket path.
FieldItems ==
    IF ex_fn = "parse_quota_items" THEN ex_out.value ELSE ex_out.value[1].model_quotas

\* The remaining fraction of a returned item is absent; an item of the bucket
\* path always carries a float.
FractionAbsent(item) ==
    IF ex_fn = "parse_quota_items" THEN item.remaining_fraction = None ELSE FALSE

\* C20: on a payload whose entries have an unparseable remaining fraction or
\* an unrecognized reset time, parse_quota_items and
\* _extract_quota_from_api_resp do not raise; they yield one item per entry,
\* with the unparseable field absent and the other field as parsed.
C20_FieldFailureIsLocal ==
    ex_pc = "ret" /\ FieldPayload =>
        /\ ~ex_out.raised
        /\ Len(FieldItems) = Len(FieldEntries)
        /\ \A i \in DOMAIN FieldEntries :
              /\ FractionAbsent(FieldItems[i]) <=>
                    (FieldFraction(FieldEntries[i]) \in { JStr("abc"), JNull })
              /\ (FieldItems[i].reset_time = None) <=>
                    (FieldReset(FieldEntries[i]) \in { JStr("soon"), JNull })

\* The bucket path of _extract_quota_from_api_resp has returned its dict.
BucketsReturned ==
    /\ ExReturned
    /\ ex_fn = "api_resp"
    /\ ex_out.value # None
    /\ "tiers" \in DOMAIN ex_out.value[1]

\* The tier's name as it is looked for in a model id.
TierMarker(name) == IF name = "Pro" THEN "pro" ELSE "flash"

\* The positions in model_quotas of the models of a tier, and the positions
\* in tiers of the entries of that tier.
TierMembers(q, name) ==
    { i \in DOMAIN q.model_quotas :
        Contains(Lower(q.model_quotas[i].model_id.s), TierMarker(name)) }

TierEntries(q, name) == { j \in DOMAIN q.tiers : q.tiers[j].tier = name }

\* Entry e represents the models at positions `members`: its fraction is their
\* lowest, its reset time that of a model with that fraction, and its models
\* are their ids in order.
Represents(q, e, members) ==
    /\ \A i \in members : e.remaining_fraction <= q.model_quotas[i].remaining_fraction
    /\ \E i \in members :
          /\ q.model_quotas[i].remaining_fraction = e.remaining_fraction
          /\ q.model_quotas[i].reset_time = e.reset_time
    /\ Len(e.models) = Cardinality(members)
    /\ \A k \in DOMAIN e.models :
          \E i \in members :
              /\ q.model_quotas[i].model_id = e.models[k]
              /\ Cardinality({ m \in members : m < i }) = k - 1

TierSummarized(q, name) ==
    IF TierMembers(q, name) = {} THEN TierEntries(q, name) = {}
    ELSE /\ Cardinality(TierEntries(q, name)) = 1
         /\ \A j \in TierEntries(q, name) : Represents(q, q.tiers[j], TierMembers(q, name))

\* C21: for a bucket payload, each of the tiers Pro and Flash that has a
\* parsed model (one whose id contains the tier's name, in any case) gets
\* exactly one tier entry, with the fraction and reset time of its model of
\* lowest fraction and with the ids of all its models in bucket order; a tier
\* without a model gets no entry.
C21_TierSummary ==
    BucketsReturned =>
        /\ TierSummarized(ex_out.value[1], "Pro")
        /\ TierSummarized(ex_out.value[1], "Flash")

\* Buckets gemini-2.5-pro 0.2 and Gemini-2.5-Flash 0.8: two model items and
\* the tiers Pro (0.2) and Flash (0.8).
C21_Witness ==
    /\ BucketsReturned
    /\ Len(ex_out.value[1].model_quotas) = 2
    /\ Len(ex_out.value[1].tiers) = 2
    /\ ex_out.value[1].tiers[1].tier = "Pro"
    /\ ex_out.value[1].tiers[1].remaining_fraction = Scale \div 5
    /\ ex_out.value[1].tiers[2].tier = "Flash"
    /\ ex_out.value[1].tiers[2].remaining_fraction = (4 * Scale) \div 5

\* x is the lowest of the fractions of the tier entries.
LowestOfTiers(tiers, x) ==
    /\ \E j \in DOMAIN tiers : tiers[j].remaining_fraction = x
    /\ \A j \in DOMAIN tiers : x <= tiers[j].remaining_fraction

\* The overall fraction of the summary q is the lowest of its tiers'.
OverallIsTierMinimum(q) ==
    IF q.remaining_fraction = None THEN q.tiers = <<>>
    ELSE LowestOfTiers(q.tiers, q.remaining_fraction[1])

\* The overall fraction is there when a model quota was parsed.
OverallPresent(q) == q.model_quotas # <<>> => q.remaining_fraction # None

\* C27: in the bucket path the overall remaining_fraction is the minimum of
\* the fractions of the emitted tier entries, and it is present whenever a
\* model quota was parsed from the buckets.
C27_OverallFraction ==
    BucketsReturned =>
        /\ OverallIsTierMinimum(ex_out.value[1])
        /\ OverallPresent(ex_out.value[1])

\* The values of the keys named in `keys`, in pre-order of the payload: the
\* members of an object in payload order, the elements of an array in order,
\* and the value of a matching key before what is found inside that value.
RECURSIVE Flatten(_)
Flatten(seqs) == IF seqs = <<>> THEN <<>> ELSE Head(seqs) \o Flatten(Tail(seqs))

RECURSIVE PreOrder(_, _)
PreOrder(v, keys) ==
    IF v.t = "obj"
    THEN Flatten([ i \in DOMAIN v.kvs |->
                     (IF v.kvs[i][1] \in keys THEN <<v.kvs[i][2]>> ELSE <<>>)
                        \o PreOrder(v.kvs[i][2], keys) ])
    ELSE IF v.t = "arr"
    THEN Flatten([ i \in DOMAIN v.xs |-> PreOrder(v.xs[i], keys) ])
    ELSE <<>>

\* The fraction a candidate stands for: v when it is a number v in [0, 1],
\* v/100 when v is in (1, 100], and none when it is no number or out of range.
FractionOfNumber(v) ==
    IF 0 <= v /\ v <= Scale THEN Some(v)
    ELSE IF v > Scale /\ v <= 100 * Scale THEN Some(v \div 100)
    ELSE None

FractionOf(c) ==
    IF CandidateFloat(c).raised THEN None ELSE FractionOfNumber(CandidateFloat(c).value)

\* The reset time a candidate stands for, none when it is no timestamp.
ResetOf(c) == IsoOrNone(try_parse_time(c))

\* x is what the first candidate that stands for something stands for, and
\* none when no candidate does.
FirstFraction(cands, x) ==
    IF \A i \in DOMAIN cands : FractionOf(cands[i]) = None THEN x = None
    ELSE \E i \in DOMAIN cands :
            /\ FractionOf(cands[i]) # None
            /\ x = FractionOf(cands[i])
            /\ \A j \in 1..(i - 1) : FractionOf(cands[j]) = None

FirstReset(cands, x) ==
    IF \A i \in DOMAIN cands : ResetOf(cands[i]) = None THEN x = None
    ELSE \E i \in DOMAIN cands :
            /\ ResetOf(cands[i]) # None
            /\ x = ResetOf(cands[i])
            /\ \A j \in 1..(i - 1) : ResetOf(cands[j]) = None

LegacyReturned == ExReturned /\ ex_fn = "legacy"

LegacyFound(x, remCands, resetCands) ==
    IF x = None
    THEN FirstFraction(remCands, None) /\ FirstReset(resetCands, None)
    ELSE /\ FirstFraction(remCands, x[1].remaining_fraction)
         /\ FirstReset(resetCands, x[1].reset_time)
         /\ ~(x[1].remaining_fraction = None /\ x[1].reset_time = None)

\* C22: _extract_quota_legacy takes its candidates in pre-order of the
\* payload; the fraction is that of the first candidate that is a number in
\* [0, 100] (divided by 100 above 1), the reset time that of the first
\* candidate that is a timestamp, and the result is "no data" exactly when
\* neither was found.
C22_LegacyFirstCandidate ==
    LegacyReturned =>
        /\ ~ex_out.raised
        /\ LegacyFound(ex_out.value, PreOrder(ex_in, RemKeys), PreOrder(ex_in, ResetKeys))

\* An object under a matching key and an out-of-range 250 are passed over,
\* and the 75 in the list gives 0.75.
C22_Witness ==
    /\ LegacyReturned
    /\ Len(PreOrder(ex_in, RemKeys)) = 3
    /\ PreOrder(ex_in, RemKeys)[1].t = "obj"
    /\ PreOrder(ex_in, RemKeys)[2] = JInt(250)
    /\ PreOrder(ex_in, RemKeys)[3] = JInt(75)
    /\ ex_out.value # None
    /\ ex_out.value[1].remaining_fraction = Some((3 * Scale) \div 4)

(***************************************************************************)
(* Further claims about main and the run methods (checked under Spec).     *)
(***************************************************************************)
\* The trial requests of the run, in the order they were sent.
Trials == OfKind("trial")

\* C11: probe_connect_port sends its trial requests to the candidate ports in
\* the order of the sequence, one per port; no trial follows a trial that
\* returned status 200, and the port of that trial is the one returned; run
\* ends with the no-live-port reason exactly when every candidate was tried
\* and none returned status 200.
C11_TrialOrder ==
    /\ Len(Trials) <= Len(ag.ports)
    /\ \A i \in DOMAIN Trials : Trials[i].port = ag.ports[i]
    /\ \A i, j \in DOMAIN Trials : i # j => Trials[i].port # Trials[j].port
    /\ \A i \in DOMAIN Trials : i < Len(Trials) => Trials[i].status # 200
    /\ ag.connect_port # None <=>
          Trials # <<>> /\ Trials[Len(Trials)].status = 200
    /\ ag.connect_port # None => ag.connect_port = Some(Trials[Len(Trials)].port)
    /\ AgEnded =>
          (run_out.antigravity = Ret(Failure(NoLivePortReason)) <=>
              /\ Trials # <<>>
              /\ Len(Trials) = Len(ag.ports)
              /\ \A i \in DOMAIN Trials : Trials[i].status # 200)

\* Three candidates, the hinted one first: the first trial failed, the second
\* returned 200, and the third candidate was not tried.
C11_Witness ==
    /\ AgEnded
    /\ Len(ag.ports) = 3
    /\ Len(Trials) = 2
    /\ Trials[1].status # 200
    /\ Trials[2].status = 200
    /\ ag.connect_port = Some(ag.ports[2])

\* The API call of the Gemini probe failed: a transport failure, a status
\* other than 200, or a body that is no JSON.
ApiCallFailed == OfKind("quota") # <<>> /\
    (Failed(OfKind("quota")[1]) \/ ~OfKind("quota")[1].json)

\* C12: with a bearer token the quota API is attempted before the CLI; the
\* CLI is invoked only when the API path produced no response (no readable
\* credential file, no token in it, or a failed API call); run returns
\* ok=false only when the API path and the CLI path both yielded nothing.
C12_ApiBeforeCli ==
    /\ pc \in {"gm_discover", "gm_quota"} => cli_log = <<>>
    /\ cli_log # <<>> /\ Truthy(gm.token) => Len(OfKind("quota")) = 1
    /\ cli_log # <<>> => ~Truthy(gm.token) \/ ApiCallFailed
    /\ GmEnded /\ ~run_out.gemini_cli.raised /\ ~run_out.gemini_cli.value.ok =>
          /\ ~Truthy(gm.api_resp)
          /\ gm.cli_resp = None

\* The output that ended try_cli_stats yielded quota data: run returned what
\* the extraction parsed from it.
CliParsed ==
    /\ ~run_out.gemini_cli.raised
    /\ run_out.gemini_cli.value.ok
    /\ run_out.gemini_cli.value.parsed # None

\* C13: try_cli_stats attempts the invocation variants in the order
\* [stats --json, /stats --json, stats, /stats], each at most once, and an
\* output ends the chain before the last variant only when quota data was
\* parsed from it.
C13_CliVariantsInOrder ==
    /\ Len(cli_log) <= Len(Attempts)
    /\ cli_log = SubSeq(Attempts, 1, Len(cli_log))
    /\ GmEnded /\ gm.cli_resp # None /\ Len(cli_log) < Len(Attempts) => CliParsed

\* C14: an invocation that fails because the CLI binary does not exist ends
\* try_cli_stats at once with None, whichever variant it was: it is the last
\* entry of the invocation log, and run returns its final failure.
C14_MissingBinaryStops ==
    gm.cli_last = "missing" =>
        /\ GmEnded
        /\ gm.cli_resp = None
        /\ Len(cli_log) = gm.cli_i
        /\ cli_log = SubSeq(Attempts, 1, gm.cli_i)
        /\ run_out.gemini_cli = Ret(NoGemini)

\* The binary went missing at the second variant, after the first had exited
\* with a non-zero status: the last two variants were not attempted.
C14_Witness ==
    /\ gm.cli_last = "missing"
    /\ cli_log = SubSeq(Attempts, 1, 2)
    /\ GmEnded

\* GeminiProbe.run has returned a mapping.
GmRunReturned == GmEnded /\ ~run_out.gemini_cli.raised

\* The payload the run obtained last, and the outcome of its extraction.
GmPayload ==
    IF gm.cli_resp # None THEN gm.cli_resp[1].payload ELSE gm.api_resp

GmExtraction ==
    IF gm.cli_resp = None THEN _extract_quota_from_api_resp(gm.api_resp)
    ELSE IF gm.cli_resp[1].source = "cli-json"
    THEN _extract_quota_from_api_resp(gm.cli_resp[1].payload)
    ELSE _extract_quota_from_cli_raw(gm.cli_resp[1].payload)

GmMethod ==
    IF gm.cli_resp = None THEN "api" ELSE gm.cli_resp[1].source

\* The run obtained a payload, and its extraction returned None.
GmNoData ==
    /\ GmEnded
    /\ gm.cli_resp # None \/ Truthy(gm.api_resp)
    /\ GmExtraction = Ret(None)

\* The mapping r has parsed absent and holds payload under the key of method.
KeepsPayload(r, method, payload) ==
    /\ r.ok
    /\ r.method = method
    /\ r.parsed = None
    /\ IF method = "cli-raw"
       THEN "raw_text" \in DOMAIN r /\ r.raw_text = payload
       ELSE "raw" \in DOMAIN r /\ r.raw = payload

GmApiWithoutQuota ==
    /\ GmEnded
    /\ Truthy(gm.api_resp)
    /\ \/ _extract_quota_from_api_resp(gm.api_resp).raised
       \/ _extract_quota_from_api_resp(gm.api_resp) = Ret(None)

\* The mapping r is the result of method api without parsed data.
ApiWithoutParsed(r) == r.ok /\ r.method = "api" /\ r.parsed = None

\* C30: when the quota API answers a non-empty response from which no quota
\* can be extracted, GeminiProbe.run returns ok=true with method "api" and
\* parsed absent, and the CLI is not invoked in that run.
C30_NoCliAfterApi ==
    GmApiWithoutQuota =>
        /\ cli_log = <<>>
        /\ ~run_out.gemini_cli.raised
        /\ ApiWithoutParsed(run_out.gemini_cli.value)

(***************************************************************************)
(* Driver of the helper functions of the probes: each is applied once to   *)
(* an argument drawn from HpInputs.                                        *)
(***************************************************************************)
MaxArgs == 3

\* Arguments of a process: the flag in both forms, a flag whose name extends
\* it, an argument that holds the flag's text inside its value, and others.
HpArgs ==
    { "--csrf_token", "--csrf_token=ABC123", "ABC123", "--foo", "bar", "--other",
      "--csrf_token_file=/t", "--child_args=--csrf_token=zz" }

\* The arguments of _extract_flag_from_cmd: the joined command line of argv,
\* and the flag.
HpCmdlines ==
    { [t |-> "cmd", argv |-> argv, flag |-> "--csrf_token"] :
        argv \in SeqUpTo(HpArgs, MaxArgs) }

MaxConns == 2

\* The connections psutil.net_connections may report: sockets of pid 42 that
\* listen (one twice, on two addresses), one that does not, one of another
\* process, one without a local address.
HpConns ==
    { Conn("LISTEN", 42, Some(7002)), Conn("LISTEN", 42, Some(7001)),
      Conn("ESTABLISHED", 42, Some(7005)), Conn("LISTEN", 7, Some(7004)),
      Conn("LISTEN", 42, None) }

\* A socket in lsof's listing.
LsofEntry(port, state) == [port |-> port, state |-> state]

HpLsofEntries ==
    { LsofEntry(7003, "LISTEN"), LsofEntry(7001, "LISTEN"), LsofEntry(7005, "ESTABLISHED") }

\* The line lsof -nP prints for a socket.
LsofLine(e) ==
    "language_ 42 me 9u IPv4 TCP 127.0.0.1:" \o IntToStr(e.port) \o " (" \o e.state \o ")"

\* lsof's output: the header, then one line per socket.
LsofLines(entries) ==
    <<"COMMAND PID USER FD TYPE NAME">> \o [i \in DOMAIN entries |-> LsofLine(entries[i])]

\* The arguments of get_listening_ports: the pid, and what the two OS
\* queries answer (entries is lsof's listing, None when the call raises).
HpPortQueries ==
    { [t |-> "ports", pid |-> 42, net |-> net, entries |-> entries] :
        net \in { Raise("AccessDenied") } \cup { Ret(cs) : cs \in SeqUpTo(HpConns, MaxConns) },
        entries \in { None } \cup { Some(es) : es \in SeqUpTo(HpLsofEntries, MaxConns) } }

\* The outcome of the lsof call.
LsofOutcome(entries) ==
    IF entries = None THEN Raise("FileNotFoundError") ELSE Ret(LsofLines(entries[1]))

\* Instants as seconds since the epoch: 1970-01-01T00:00:00, 1970-01-01T00:00:59,
\* 1970-01-02T00:00:00, 1970-01-02T01:01:01, 2000-02-29T00:00:00 and
\* 2025-01-02T03:04:05.
HpEpochSeconds == { 0, 59, 86400, 90061, 951782400, 1735787045 }

\* The arguments of try_parse_time: an instant as an int of seconds, and as
\* an int of milliseconds (for the instants whose milliseconds fit the
\* integers of the model).
HpEpochs ==
    { [t |-> "epoch", unit |-> "s", secs |-> e] : e \in HpEpochSeconds }
        \cup { [t |-> "epoch", unit |-> "ms", secs |-> e] :
                  e \in { x \in HpEpochSeconds : x <= 90061 } }

\* The int handed to try_parse_time.
EpochValue(in) == IF in.unit = "ms" THEN 1000 * in.secs ELSE in.secs

MaxProcs == 3

\* An entry of the OS process table: the process, and whether it has exited
\* by the time process_iter reads its attributes.
OsProc(proc, gone) == [proc |-> proc, gone |-> gone]

\* Processes of the OS: without a marker, with the service marker only, one
\* whose attributes are denied, language servers of Antigravity (one with an
\* upper-case name), a process with the application marker only, one whose
\* name alone is denied, and a language server that has exited.
HpOsProcs ==
    { OsProc(Shell, FALSE), OsProc(OtherServer, FALSE), OsProc(Denied, FALSE),
      OsProc(LanguageServer(<<"--csrf_token=t0k">>), FALSE),
      OsProc(Process(43, Some("Language_Server_Mac"),
                     Some(<<"/Applications/Antigravity.app/ls">>)), FALSE),
      OsProc(Process(44, Some("node"), Some(<<"node", "antigravity-helper">>)), FALSE),
      OsProc(Process(45, None, Some(<<"/opt/antigravity/language_server">>)), FALSE),
      OsProc(Process(46, Some("language_server_linux"),
                     Some(<<"/opt/Antigravity/language_server">>)), TRUE) }

\* The argument of find_process: the process table of the OS.
HpProcTables ==
    { [t |-> "procs", table |-> tb] : tb \in SeqUpTo(HpOsProcs, MaxProcs) }

\* psutil.process_iter(attrs=[...]): a process that has exited is not
\* yielded (process_iter catches NoSuchProcess itself); an attribute the OS
\* denies is None in p.info.
StillThere(e) == ~e.gone

Yielded(entries) == [i \in DOMAIN entries |-> entries[i].proc]

process_iter(table) == Yielded(SelectSeq(table, StillThere))

HpInputs == HpCmdlines \cup HpPortQueries \cup HpEpochs \cup HpProcTables

HpInit ==
    /\ ex_pc = "call"
    /\ ex_fn = "none"
    /\ ex_in \in HpInputs
    /\ ex_out = Ret(None)
    /\ ex_calls = <<>>
    /\ today = ClockDays[1]

HpExtractFlag ==
    /\ ex_in.t = "cmd"
    /\ ExReturn("_extract_flag_from_cmd",
                Ret(_extract_flag_from_cmd(Join(ex_in.argv), ex_in.flag)))

\* get_listening_ports(pid): the ports returned and the OS queries made.
HpListeningPorts ==
    /\ ex_in.t = "ports"
    /\ ExReturn("get_listening_ports",
                Ret([ports |-> get_listening_ports(ex_in.pid, ex_in.net,
                                                   LsofOutcome(ex_in.entries)),
                     queries |-> PortQueries(ex_in.pid, ex_in.net)]))

\* find_process() over the process table of the OS.
HpFindProcess ==
    /\ ex_in.t = "procs"
    /\ ExReturn("find_process", Ret(find_process(process_iter(ex_in.table))))

\* try_parse_time(v) of an int v.
HpParseTime ==
    /\ ex_in.t = "epoch"
    /\ ExReturn("try_parse_time", Ret(try_parse_time(JInt(EpochValue(ex_in)))))

(***************************************************************************)
(* Claims about the helper functions (checked under SpecHelpers).          *)
(***************************************************************************)
\* The call of helper fn has returned.
HpReturned(fn) == ex_pc = "ret" /\ ex_fn = fn

\* The flag occurs as the argument arg: `flag` or `flag=value`.
IsFlagArg(arg, flag) == arg = flag \/ StartsWith(arg, flag \o "=")

\* The position of the first argument of argv that is the flag, 0 when there
\* is none.
FirstFlagArg(argv, flag) ==
    IF \E i \in DOMAIN argv : IsFlagArg(argv[i], flag)
    THEN CHOOSE i \in DOMAIN argv :
            /\ IsFlagArg(argv[i], flag)
            /\ \A j \in 1..(i - 1) : ~IsFlagArg(argv[j], flag)
    ELSE 0

\* The value of the occurrence at position i: the rest of `flag=value`, or the
\* argument that follows `flag`; None when it is empty or there is none.
FlagArgValue(argv, i, flag) ==
    IF argv[i] = flag
    THEN (IF i < Len(argv) THEN Some(argv[i + 1]) ELSE None)
    ELSE IF Len(argv[i]) > Len(flag) + 1
    THEN Some(SubSeq(argv[i], Len(flag) + 2, Len(argv[i])))
    ELSE None

\* C15: _extract_flag_from_cmd returns the value of the first argument that
\* is the flag, in the form `flag=value` or `flag value`, wherever it stands
\* among the arguments, and None when no argument is the flag.
C15_ExtractFlag ==
    HpReturned("_extract_flag_from_cmd") =>
        /\ FirstFlagArg(ex_in.argv, ex_in.flag) = 0 => ex_out.value = None
        /\ FirstFlagArg(ex_in.argv, ex_in.flag) > 0 =>
              \/ FlagArgValue(ex_in.argv, FirstFlagArg(ex_in.argv, ex_in.flag), ex_in.flag) = None
              \/ ex_out.value =
                    FlagArgValue(ex_in.argv, FirstFlagArg(ex_in.argv, ex_in.flag), ex_in.flag)

\* The LISTEN ports owned by pid that the primary query reports; none when
\* the query fails.
OwnedPorts(net, pid) ==
    IF net.raised THEN {}
    ELSE { c.laddr[1] : c \in { x \in { net.value[i] : i \in DOMAIN net.value } :
                                  x.status = "LISTEN" /\ x.pid = pid /\ x.laddr # None } }

\* The listening ports of the utility's listing; none when the utility is
\* unavailable or fails.
ListedPorts(entries) ==
    IF entries = None THEN {}
    ELSE { e.port : e \in { x \in { entries[1][i] : i \in DOMAIN entries[1] } :
                              x.state = "LISTEN" } }

\* A strictly ascending sequence.
Ascending(ports) == \A i, j \in DOMAIN ports : i < j => ports[i] < ports[j]

\* C16: get_listening_ports never raises and returns a strictly ascending
\* sequence: the LISTEN ports of pid from the primary query when there are
\* any, otherwise the listening ports parsed from the utility's output; the
\* utility is invoked only in that case; the result is empty when the primary
\* query fails and the utility is unavailable or fails.
C16_ListeningPorts ==
    HpReturned("get_listening_ports") =>
        /\ ~ex_out.raised
        /\ Ascending(ex_out.value.ports)
        /\ { ex_out.value.ports[i] : i \in DOMAIN ex_out.value.ports } =
              IF OwnedPorts(ex_in.net, ex_in.pid) # {}
              THEN OwnedPorts(ex_in.net, ex_in.pid)
              ELSE ListedPorts(ex_in.entries)
        /\ ex_out.value.queries =
              IF OwnedPorts(ex_in.net, ex_in.pid) # {}
              THEN <<"net_connections">>
              ELSE <<"net_connections", "lsof">>
        /\ ex_in.net.raised /\ ex_in.entries = None => ex_out.value.ports = <<>>

\* The primary query failed and the utility listed two listening sockets, the
\* higher port first.
C16_Witness ==
    /\ HpReturned("get_listening_ports")
    /\ ex_in.net.raised
    /\ ex_in.entries = Some(<<LsofEntry(7003, "LISTEN"), LsofEntry(7001, "LISTEN")>>)
    /\ ex_out.value.ports = <<7001, 7003>>

\* run has handed its candidate ports to probe_connect_port.
Handed == ag.port_i > 0

\* The hint of the command line as an integer: int(ext_port_flag), raised
\* when there is no hint or it is no integer.
Hint == IF ag.ext_port_flag = None THEN Raise("no hint") ELSE IntOfStr(ag.ext_port_flag[1])

\* C17: the candidate ports handed to probe_connect_port hold no duplicate;
\* with a hint that is an integer the hinted port comes first and the other
\* discovered ports follow in ascending order; without such a hint the
\* candidates are the sorted discovered ports.
C17_CandidatePorts ==
    Handed =>
        /\ \A i, j \in DOMAIN ag.ports : i # j => ag.ports[i] # ag.ports[j]
        /\ ~Hint.raised =>
              /\ ag.ports[1] = Hint.value
              /\ Ascending(Tail(ag.ports))
              /\ { ag.ports[i] : i \in 2..Len(ag.ports) } =
                    { ag.listening[i] : i \in DOMAIN ag.listening } \ { Hint.value }
        /\ Hint.raised => ag.ports = ag.listening /\ Ascending(ag.ports)

\* The hinted port is the higher of two discovered ports: it was moved to the
\* front.
C17_Witness ==
    /\ Handed
    /\ ag.listening = <<7001, 7002>>
    /\ ag.ports = <<7002, 7001>>

\* AntigravityProbe.run has returned the failure whose reason starts with
\* `text`.
AgFailedWith(text) ==
    /\ AgEnded
    /\ ~run_out.antigravity.raised
    /\ ~run_out.antigravity.value.ok
    /\ StartsWith(run_out.antigravity.value.reason, text)

\* C28: run returns "No listening ports" only when port discovery returned
\* nothing and the port hint is no integer; with a token, a hint that is an
\* integer is a candidate and gets the first trial request, also when it is
\* not among the discovered ports.
C28_HintIsCandidate ==
    /\ AgFailedWith("No listening ports") => ag.listening = <<>> /\ Hint.raised
    /\ (pc \notin {"ag_find", "ag_cmdline", "ag_ports"} /\ ag.p # None
            /\ TokenFound /\ ~Hint.raised) =>
          /\ Handed
          /\ ag.ports[1] = Hint.value
          /\ http_log # <<>> =>
                http_log[1].kind = "trial" /\ http_log[1].port = Hint.value

\* Discovery returned nothing, the hint 7002 is the only candidate and got
\* the first trial request.
C28_Witness ==
    /\ AgEnded
    /\ TokenFound
    /\ ag.listening = <<>>
    /\ Hint = Ret(7002)
    /\ ag.ports = <<7002>>
    /\ http_log # <<>>
    /\ http_log[1].port = 7002

\* The positions of AntigravityProbe.run after the command line was re-read.
AgAfterCmdline ==
    pc \in {"ag_ports", "ag_trial", "ag_primary", "ag_fallback", "ag_parse", "ag_done"}

\* p.cmdline() raised: the process found by the scan has exited, or its
\* command line is unreadable (a readable command line is never empty).
CmdlineUnread == AgAfterCmdline /\ ag.p # None /\ ag.cmdline = ""

\* C29: when the process found by find_process has exited by the time run
\* re-reads its command line, run goes on with an empty command line, sends
\* no HTTP request and returns the "CSRF token not found" failure, not
\* "process not found" and no exception; in any run without a token no HTTP
\* request is sent, and the missing token is reported also when no port was
\* found.
C29_TokenGate ==
    /\ CmdlineUnread =>
          /\ pc \in {"ag_ports", "ag_done"}
          /\ ~TokenFound
    /\ (AgAfterCmdline /\ ag.p # None /\ ~TokenFound) =>
          /\ http_log = <<>>
          /\ AgEnded => AgFailedWith("CSRF token not found")

\* The command line could not be read and no port was found: the run has
\* asked the OS for the ports and reports the missing token.
C29_Witness ==
    /\ CmdlineUnread
    /\ AgEnded
    /\ ag.ports = <<>>
    /\ os_log # <<>>
    /\ AgFailedWith("CSRF token not found")

\* The UTC instant of e seconds since the epoch, for the instants of the
\* model.
CanonicalUtc(e) ==
    CASE e = 0 -> Datetime(1970, 1, 1, 0, 0, 0, 0, "UTC")
      [] e = 59 -> Datetime(1970, 1, 1, 0, 0, 59, 0, "UTC")
      [] e = 86400 -> Datetime(1970, 1, 2, 0, 0, 0, 0, "UTC")
      [] e = 90061 -> Datetime(1970, 1, 2, 1, 1, 1, 0, "UTC")
      [] e = 951782400 -> Datetime(2000, 2, 29, 0, 0, 0, 0, "UTC")
      [] e = 1735787045 -> Datetime(2025, 1, 2, 3, 4, 5, 0, "UTC")

\* C18: for an instant given as an int of seconds and for one given as an
\* int of milliseconds, try_parse_time returns the aware UTC datetime of that
\* instant: the same for t seconds and for 1000*t milliseconds.
C18_EpochInstant ==
    HpReturned("try_parse_time") => ex_out.value = Some(CanonicalUtc(ex_in.secs))

\* The markers of a process as process_iter reports it: the service marker in
\* its name (in any case) or its command line, the application marker in its
\* command line (in any case).
CarriesService(proc) ==
    \/ proc.name # None /\ Contains(Lower(proc.name[1]), "language_server")
    \/ proc.cmdline # None /\ Contains(Join(proc.cmdline[1]), "language_server")

CarriesApplication(proc) ==
    proc.cmdline # None /\ Contains(Lower(Join(proc.cmdline[1])), "antigravity")

CarriesBoth(e) == ~e.gone /\ CarriesService(e.proc) /\ CarriesApplication(e.proc)

\* found is the first entry of the table that is still there and carries
\* both markers, and None when no entry is.
FirstCarrier(table, found) ==
    IF \A i \in DOMAIN table : ~CarriesBoth(table[i]) THEN found = None
    ELSE \E i \in DOMAIN table :
            /\ CarriesBoth(table[i])
            /\ found = Some(table[i].proc)
            /\ \A j \in 1..(i - 1) : ~CarriesBoth(table[j])

\* C25: find_process does not raise; it returns the first process in
\* traversal order that carries both the service marker and the application
\* marker, passing over processes that have exited or deny access, and None
\* when no process carries both.
C25_FindProcess ==
    HpReturned("find_process") =>
        /\ ~ex_out.raised
        /\ FirstCarrier(ex_in.table, ex_out.value)

\* An exited language server and a process that denies access come first,
\* then two language servers of Antigravity: the first of the two is returned.
C25_Witness ==
    /\ HpReturned("find_process")
    /\ Len(ex_in.table) = 3
    /\ ex_in.table[1].gone
    /\ CarriesBoth(ex_in.table[2])
    /\ CarriesBoth(ex_in.table[3])
    /\ ex_in.table[2] # ex_in.table[3]
    /\ ex_out.value = Some(ex_in.table[2].proc)

(***************************************************************************)
(* Driver of repeated extraction calls: one payload, up to MaxCalls calls  *)
(* of the extraction functions in any order, while the clock runs.         *)
(***************************************************************************)
MaxCalls == 3

\* resetTime values: absent, a full date-time, a time of day.
RpTimeVals == { JNull, JStr(ExIsoAware), JStr("03:04:05") }

RpPayloads ==
    { UserStatus(JArr(<< Config(JStr("Claude Sonnet"), r, t) >>)) :
        r \in { JNum(Scale \div 2), JStr("abc") }, t \in RpTimeVals }
        \cup { JObj(<< KV("buckets",
                          JArr(<< Bucket(JStr("gemini-2.5-pro"), JNum(Scale \div 5), t) >>)) >>) :
                 t \in RpTimeVals }
        \cup { JObj(<< KV("remaining", JInt(75)), KV("resetTime", t) >>) : t \in RpTimeVals }
        \cup { JStr("Remaining: 42.5% (resets 2025-01-02T03:04:05Z)"), JStr("no quota data") }

RpInit ==
    /\ ex_pc = "call"
    /\ ex_fn = "none"
    /\ ex_in \in RpPayloads
    /\ ex_out = Ret(None)
    /\ ex_calls = <<>>
    /\ today = ClockDays[1]

\* One more call on the payload; the call is recorded with the argument as
\* it is after the call.
RpCall(fn, out) ==
    /\ Len(ex_calls) < MaxCalls
    /\ ex_pc' = "ret"
    /\ ex_fn' = fn
    /\ ex_out' = out
    /\ ex_calls' = Append(ex_calls, [fn |-> fn, arg |-> ex_in, out |-> out])
    /\ UNCHANGED <<ex_in, today>>

RpParseQuotaItems == RpCall("parse_quota_items", parse_quota_items(ex_in))

RpApiResp == RpCall("api_resp", _extract_quota_from_api_resp(ex_in))

RpCliRaw ==
    /\ ex_in.t \in {"str", "obj"}
    /\ RpCall("cli_raw", _extract_quota_from_cli_raw(ex_in))

\* Midnight passes between two calls.
RpMidnight ==
    /\ today = ClockDays[1]
    /\ today' = ClockDays[2]
    /\ UNCHANGED <<ex_pc, ex_fn, ex_in, ex_out, ex_calls>>

\* C23: two calls of the same extraction function on the same payload,
\* whatever was called in between, give the same items or result, and the
\* payload is the same after each call.
C23_Deterministic ==
    \A i \in DOMAIN ex_calls : \A j \in DOMAIN ex_calls :
        ex_calls[i].fn = ex_calls[j].fn =>
            /\ ex_calls[i].out = ex_calls[j].out
            /\ ex_calls[i].arg = ex_calls[j].arg

(***************************************************************************)
(* Driver of a probe constructed by a caller other than main:              *)
(* AntigravityProbe(timeout=t).run().                                      *)
(***************************************************************************)
\* The timeout argument of the constructor: 1.0, 2.0, the default, 30.0.
PbTimeouts == { Scale, 2 * Scale, DEFAULT_TIMEOUT, 30 * Scale }

\* __init__ has stored the timeout, and run is about to start.
PbInit ==
    /\ provider = None
    /\ pc = "ag_find"
    /\ results = EmptyMap
    /\ run_out = EmptyMap
    /\ ag = AgFrame0
    /\ gm = GmFrame0
    /\ http_log = <<>>
    /\ os_log = <<>>
    /\ cli_log = <<>>
    /\ ag_timeout \in PbTimeouts

\* C24: whatever timeout the probe was constructed with, the timeout of a
\* trial request is strictly shorter than that of a status-fetch request of
\* the same probe.
C24_TrialTimeoutShorter ==
    \A i \in DOMAIN http_log : \A j \in DOMAIN http_log :
        http_log[i].kind = "trial" /\ http_log[j].kind \in {"primary", "fallback"}
            => http_log[i].timeout < http_log[j].timeout

(***************************************************************************)
(* Specifications, one per component.                                      *)
(***************************************************************************)
SelNext == SelCall /\ UNCHANGED <<exVars, runVars, objVars>>

InitSelect == SelInit /\ ExIdle /\ RunIdle

SpecSelect == InitSelect /\ [][SelNext]_vars

ExNext ==
    \/ ExParseQuotaItems /\ UNCHANGED <<selVars, runVars, objVars>>
    \/ ExApiResp /\ UNCHANGED <<selVars, runVars, objVars>>
    \/ ExLegacy /\ UNCHANGED <<selVars, runVars, objVars>>
    \/ ExCliRaw /\ UNCHANGED <<selVars, runVars, objVars>>

InitExtract == ExInit /\ SelIdle /\ RunIdle

SpecExtract == InitExtract /\ [][ExNext]_vars

HpNext ==
    \/ HpExtractFlag /\ UNCHANGED <<selVars, runVars, objVars>>
    \/ HpListeningPorts /\ UNCHANGED <<selVars, runVars, objVars>>
    \/ HpParseTime /\ UNCHANGED <<selVars, runVars, objVars>>
    \/ HpFindProcess /\ UNCHANGED <<selVars, runVars, objVars>>

InitHelpers == HpInit /\ SelIdle /\ RunIdle

SpecHelpers == InitHelpers /\ [][HpNext]_vars

RpNext ==
    \/ RpParseQuotaItems /\ UNCHANGED <<selVars, runVars, objVars>>
    \/ RpApiResp /\ UNCHANGED <<selVars, runVars, objVars>>
    \/ RpCliRaw /\ UNCHANGED <<selVars, runVars, objVars>>
    \/ RpMidnight /\ UNCHANGED <<selVars, runVars, objVars>>

InitRepeat == RpInit /\ SelIdle /\ RunIdle

SpecRepeat == InitRepeat /\ [][RpNext]_vars

PbNext ==
    \/ AgFindProcess /\ UNCHANGED <<selVars, exVars, objVars>>
    \/ AgReadCmdline /\ UNCHANGED <<selVars, exVars, objVars>>
    \/ AgListeningPorts /\ UNCHANGED <<selVars, exVars, objVars>>
    \/ AgTrial /\ UNCHANGED <<selVars, exVars, objVars>>
    \/ AgPrimary /\ UNCHANGED <<selVars, exVars, objVars>>
    \/ AgFallback /\ UNCHANGED <<selVars, exVars, objVars>>
    \/ AgFinish /\ UNCHANGED <<selVars, exVars, objVars>>

InitProbe == PbInit /\ SelIdle /\ ExIdle

SpecProbe == InitProbe /\ [][PbNext]_vars

Init == RunInit /\ SelIdle /\ ExIdle

Next ==
    \/ MainStart /\ UNCHANGED <<selVars, exVars, objVars>>
    \/ AgFindProcess /\ UNCHANGED <<selVars, exVars, objVars>>
    \/ AgReadCmdline /\ UNCHANGED <<selVars, exVars, objVars>>
    \/ AgListeningPorts /\ UNCHANGED <<selVars, exVars, objVars>>
    \/ AgTrial /\ UNCHANGED <<selVars, exVars, objVars>>
    \/ AgPrimary /\ UNCHANGED <<selVars, exVars, objVars>>
    \/ AgFallback /\ UNCHANGED <<selVars, exVars, objVars>>
    \/ AgFinish /\ UNCHANGED <<selVars, exVars, objVars>>
    \/ MainAfterAntigravity /\ UNCHANGED <<selVars, exVars, objVars>>
    \/ GmReadCreds /\ UNCHANGED <<selVars, exVars, objVars>>
    \/ GmDiscover /\ UNCHANGED <<selVars, exVars, objVars>>
    \/ GmQuota /\ UNCHANGED <<selVars, exVars, objVars>>
    \/ GmCli /\ UNCHANGED <<selVars, exVars, objVars>>
    \/ MainAfterGemini /\ UNCHANGED <<selVars, exVars, objVars>>

Spec == Init /\ [][Next]_vars

====
